---- MODULE Spec2Model ----
(***************************************************************************)
(* A model of napari_plugin_engine's PluginManager (manager.py): the       *)
(* plugin registry (register / unregister / set_blocked / add_hookspecs),  *)
(* the lazy discovery started by the hook relay, and hook dispatch.        *)
(*                                                                         *)
(* The registry is modelled functionally: every method is an operator from *)
(* a registry record s to a record holding the registry after the call     *)
(* (st), what the call returned or raised (res) and the plugin code the    *)
(* call invoked (inv).  The nesting of calls in the source (register ->    *)
(* hook access -> discover -> load_entrypoints -> register) is the nesting *)
(* of the operators.  HookCaller, multicall and the exception classes live *)
(* in modules that are not part of the sources at hand; they are modelled  *)
(* from the design document and flagged as such.                           *)
(***************************************************************************)
EXTENDS Integers, Sequences, FiniteSets, TLC

VARIABLES plugins, plugin2hookcallers, blocked, hook, needs_discovery, tracers,
          last, journal

vars == <<plugins, plugin2hookcallers, blocked, hook, needs_discovery, tracers,
          last, journal>>

(***************************************************************************)
(* Bounds and input domains                                                *)
(***************************************************************************)
\* longest replay log a historic caller may accumulate
MaxHistory == 1
\* longest implementation list a hook caller may accumulate
MaxImpls == 3

\* plugin names the host and the discovery collaborator use
Names == {"n1", "n2"}
\* register() called without a name
NoName == "NoName"
\* plugin namespace objects (classes / modules), compared by identity
Objects == {"o1", "o2", "o3"}
NoObj == "NoObj"
HookNames == {"h1", "h2"}
NoHook == "NoHook"
ArgNames == {"a", "b"}
ArgVals == {1}
\* keyword arguments of a hook call: a mapping from supplied names to values
KwargsSet == UNION {[D -> ArgVals] : D \in {{}, {"a"}, {"a", "b"}}}
\* keyword arguments the host passes to call_historic
HistoricKwargsSet == UNION {[D -> ArgVals] : D \in {{"a"}}}
NoKwargs == [x \in {} |-> 1]

(***************************************************************************)
(* The plugins of the model: what iter_implementations finds in each       *)
(* namespace, in dir() order (sorted by attribute name).                   *)
(***************************************************************************)
RetNone == [kind |-> "none", v |-> 0]
RetVal(n) == [kind |-> "val", v |-> n]
\* the function returns its argument a times n
RetMul(n) == [kind |-> "mul", v |-> n]
RetRaise == [kind |-> "raise", v |-> 0]
\* a wrapper whose after phase replaces the outcome by the value n
RetForce(n) == [kind |-> "force", v |-> n]

HookImplementation(plugin, function, specname, argnames, hookwrapper, optionalhook, priority, ret) ==
    [plugin |-> plugin, function |-> function, specname |-> specname,
     argnames |-> argnames, hookwrapper |-> hookwrapper,
     optionalhook |-> optionalhook, priority |-> priority, ret |-> ret]

iter_implementations(namespace) ==
    CASE namespace = "o1" ->
           << HookImplementation("o1", "e", "h1", {}, FALSE, FALSE, "first", RetNone),
              HookImplementation("o1", "f", "h1", {"a"}, FALSE, FALSE, "neutral", RetVal(5)),
              HookImplementation("o1", "g", "h2", {"a"}, FALSE, TRUE, "neutral", RetVal(6)) >>
      [] namespace = "o2" ->
           << HookImplementation("o2", "d", "h1", {}, FALSE, FALSE, "last", RetVal(2)),
              HookImplementation("o2", "e", "h1", {"a", "b"}, FALSE, FALSE, "first", RetVal(7)) >>
      [] namespace = "o3" ->
           << HookImplementation("o3", "f", "h1", {"a"}, FALSE, FALSE, "neutral", RetRaise),
              HookImplementation("o3", "w", "h2", {"a"}, TRUE, TRUE, "neutral", RetNone) >>
      \* the plugins of test_register_historic: arg * 10 and arg
      [] namespace = "o4" ->
           << HookImplementation("o4", "f", "h3", {"a"}, FALSE, FALSE, "neutral", RetMul(10)) >>
      [] namespace = "o5" ->
           << HookImplementation("o5", "g", "h3", {"a"}, FALSE, FALSE, "neutral", RetMul(1)) >>
      \* a plugin whose implementation returns nothing
      [] namespace = "o6" ->
           << HookImplementation("o6", "h", "h3", {"a"}, FALSE, FALSE, "neutral", RetNone) >>
      \* the plugins of the dispatch scenarios: two wrappers, the second of
      \* which replaces the outcome, and three plain implementations
      [] namespace = "d1" ->
           << HookImplementation("d1", "w1", "h4", {}, TRUE, FALSE, "neutral", RetNone) >>
      [] namespace = "d2" ->
           << HookImplementation("d2", "w2", "h4", {}, TRUE, FALSE, "neutral", RetForce(9)) >>
      [] namespace = "d3" ->
           << HookImplementation("d3", "p", "h4", {"a"}, FALSE, FALSE, "neutral", RetNone) >>
      [] namespace = "d4" ->
           << HookImplementation("d4", "q", "h4", {"a", "b"}, FALSE, FALSE, "neutral", RetVal(5)) >>
      [] namespace = "d5" ->
           << HookImplementation("d5", "x", "h4", {}, FALSE, FALSE, "neutral", RetRaise) >>
      \* plugins whose implementations of h5 change the registry while they
      \* are invoked: r1 registers r3, r2 unregisters r3, r3 does nothing
      [] namespace = "r1" ->
           << HookImplementation("r1", "a", "h5", {}, FALSE, FALSE, "neutral", RetVal(1)) >>
      [] namespace = "r2" ->
           << HookImplementation("r2", "b", "h5", {}, FALSE, FALSE, "neutral", RetVal(2)) >>
      [] namespace = "r3" ->
           << HookImplementation("r3", "c", "h5", {}, FALSE, FALSE, "neutral", RetVal(3)) >>
      \* plugins of the historic hook h3: the implementation of r4 registers
      \* r5 while it is invoked
      [] namespace = "r4" ->
           << HookImplementation("r4", "k", "h3", {"a"}, FALSE, FALSE, "neutral", RetMul(2)) >>
      [] namespace = "r5" ->
           << HookImplementation("r5", "l", "h3", {"a"}, FALSE, FALSE, "neutral", RetMul(3)) >>
      [] OTHER -> << >>

get_canonical_name(namespace) ==
    CASE namespace = "o2" -> "n2"
      [] namespace = "o4" -> "n4"
      [] namespace = "o5" -> "n5"
      [] namespace = "o6" -> "n6"
      [] namespace = "d1" -> "m1"
      [] namespace = "d2" -> "m2"
      [] namespace = "d3" -> "m3"
      [] namespace = "d4" -> "m4"
      [] namespace = "d5" -> "m5"
      [] namespace = "r1" -> "p1"
      [] namespace = "r2" -> "p2"
      [] namespace = "r3" -> "p3"
      [] namespace = "r4" -> "p4"
      [] namespace = "r5" -> "p5"
      [] OTHER -> "n1"

(***************************************************************************)
(* The hook specification namespaces the host may declare.  Each is the    *)
(* list of its marked routines in dir() order.                             *)
(***************************************************************************)
SpecNamespaces == {"nsA", "nsH", "nsE"}
NoNs == "NoNs"

HookSpecification(name, argnames, firstresult, historic) ==
    [name |-> name, bound |-> TRUE, argnames |-> argnames,
     firstresult |-> firstresult, historic |-> historic]

NoSpec == [name |-> NoHook, bound |-> FALSE, argnames |-> {},
           firstresult |-> FALSE, historic |-> FALSE]

SpecsOf(namespace) ==
    CASE namespace = "nsA" -> << HookSpecification("h1", {"a"}, TRUE, FALSE),
                                 HookSpecification("h2", {"a"}, FALSE, FALSE) >>
      [] namespace = "nsH" -> << HookSpecification("h2", {"a"}, FALSE, TRUE) >>
      \* the Hooks class of test_register_historic
      [] namespace = "nsT" -> << HookSpecification("h3", {"a"}, FALSE, TRUE) >>
      \* the hook of the dispatch scenarios, as firstresult and as plain hook
      [] namespace = "nsF" -> << HookSpecification("h4", {"a", "b"}, TRUE, FALSE) >>
      [] namespace = "nsG" -> << HookSpecification("h4", {"a", "b"}, FALSE, FALSE) >>
      [] namespace = "nsR" -> << HookSpecification("h5", {"a"}, FALSE, FALSE) >>
      [] OTHER -> << >>

(***************************************************************************)
(* What the discovery collaborator finds: the entry points of the          *)
(* configured group and the modules matching the configured prefix.        *)
(* loads = FALSE is a target whose import raises.                          *)
(***************************************************************************)
EntryPoints == << [name |-> "n1", loads |-> TRUE, module |-> "o3"] >>

PrefixModules == << [name |-> "n2", loads |-> FALSE, module |-> NoObj] >>

\* the prefix the manager was constructed with, and a shorter prefix that the
\* names of two more modules start with
discover_prefix == "npe_a"
ShortPrefix == "npe_"

\* pkgutil.iter_modules() filtered by mod_name.startswith(prefix)
ModulesWithPrefix(prefix) ==
    IF prefix = ShortPrefix
    THEN << [name |-> "n4", loads |-> TRUE, module |-> "o1"] >> \o PrefixModules
         \o << [name |-> "n3", loads |-> TRUE, module |-> "o2"] >>
    ELSE PrefixModules

(***************************************************************************)
(* Python dict with insertion order (PluginManager.plugins): a sequence of *)
(* [name, obj] items.                                                      *)
(***************************************************************************)
DictKeys(d) == {d[i].name : i \in 1..Len(d)}
DictValues(d) == {d[i].obj : i \in 1..Len(d)}
DictGet(d, k) == d[CHOOSE i \in 1..Len(d) : d[i].name = k].obj
DictSet(d, k, v) ==
    IF k \in DictKeys(d)
    THEN [i \in 1..Len(d) |-> IF d[i].name = k THEN [name |-> k, obj |-> v] ELSE d[i]]
    ELSE Append(d, [name |-> k, obj |-> v])
DictDel(d, k) == LET T(it) == it.name # k IN SelectSeq(d, T)

\* function with a finite domain used as a dict keyed by object / hook name
MapSet(f, k, v) == [x \in DOMAIN f \cup {k} |-> IF x = k THEN v ELSE f[x]]
MapDel(f, k) == [x \in DOMAIN f \ {k} |-> f[x]]

Reverse(seq) == [i \in 1..Len(seq) |-> seq[Len(seq) + 1 - i]]

(***************************************************************************)
(* HookCaller (hooks.py, not among the sources at hand): modelled from the *)
(* design document.  impls is the list get_hookimpls returns; it is kept   *)
(* in the reverse of the dispatch order, so that inside a priority group   *)
(* it is in registration order.                                            *)
(***************************************************************************)
HookCaller(name, spec) ==
    [name |-> name, spec |-> spec, impls |-> << >>, history |-> << >>]

has_spec(caller) == caller.spec.bound
is_historic(caller) == caller.spec.bound /\ caller.spec.historic
is_firstresult(caller) == caller.spec.bound /\ caller.spec.firstresult
get_hookimpls(caller) == caller.impls

\* position of a priority group in the stored list: last, neutral, first
Rank(priority) ==
    CASE priority = "last" -> 0
      [] priority = "neutral" -> 1
      [] OTHER -> 2

\* the new implementation becomes the first of its priority group in dispatch
\* order, i.e. the last of its group in the stored list
add_hookimpl(caller, hookimpl) ==
    LET k == Cardinality({i \in 1..Len(caller.impls) :
                             Rank(caller.impls[i].priority) <= Rank(hookimpl.priority)})
    IN [caller EXCEPT !.impls = SubSeq(caller.impls, 1, k) \o << hookimpl >>
                                  \o SubSeq(caller.impls, k + 1, Len(caller.impls))]

remove_plugin(caller, plugin) ==
    LET Keep(impl) == impl.plugin # plugin
    IN [caller EXCEPT !.impls = SelectSeq(caller.impls, Keep)]

\* binding a specification; a bound specification is immutable, so binding a
\* second one is refused; the replay log of a historic caller starts empty
set_specification(caller, spec) ==
    IF has_spec(caller)
    THEN [ok |-> FALSE, caller |-> caller]
    ELSE [ok |-> TRUE, caller |-> [caller EXCEPT !.spec = spec, !.history = << >>]]

\* the order in which a dispatch visits the implementations
DispatchOrder(caller) == Reverse(caller.impls)

(***************************************************************************)
(* Multicall engine (callers.py, not among the sources at hand): modelled  *)
(* from the design document, section 4.5.  An event records one piece of   *)
(* plugin code that ran.                                                   *)
(***************************************************************************)
\* the result callbacks a host may pass to call_historic; NoCallback is None
NoCallback == "None"
Callbacks == {"cb1", "cb2"}

Event(ev, impl, kwargs) ==
    [ev |-> ev, plugin |-> impl.plugin, function |-> impl.function,
     args |-> [x \in impl.argnames \cap DOMAIN kwargs |-> kwargs[x]],
     cb |-> NoCallback, v |-> 0]

\* the call cb(v), where v is the result of impl called with kwargs
CallbackEvent(cb, impl, kwargs, v) ==
    [Event("callback", impl, kwargs) EXCEPT !.cb = cb, !.v = v]

\* what the implementation's function returns for the call arguments
Returned(impl, kwargs) ==
    IF impl.ret.kind = "mul"
    THEN RetVal(kwargs["a"] * impl.ret.v)
    ELSE impl.ret

RECURSIVE InnerLoop(_, _, _, _, _, _)
InnerLoop(nonwrappers, i, kwargs, firstresult, results, inv) ==
    IF i > Len(nonwrappers)
    THEN [exc |-> "none", results |-> results, inv |-> inv]
    ELSE LET impl == nonwrappers[i]
             ret == Returned(impl, kwargs)
         IN
         IF ~(impl.argnames \subseteq DOMAIN kwargs)
         THEN [exc |-> "HookCallError", results |-> results, inv |-> inv]
         ELSE LET inv1 == Append(inv, Event("call", impl, kwargs)) IN
              CASE ret.kind = "raise" ->
                     [exc |-> "ImplError", results |-> results, inv |-> inv1]
                [] ret.kind = "val" /\ firstresult ->
                     [exc |-> "none", results |-> << [v |-> ret.v, impl |-> impl] >>,
                      inv |-> inv1]
                [] ret.kind = "val" /\ ~firstresult ->
                     InnerLoop(nonwrappers, i + 1, kwargs, firstresult,
                               Append(results, [v |-> ret.v, impl |-> impl]), inv1)
                [] OTHER ->
                     InnerLoop(nonwrappers, i + 1, kwargs, firstresult, results, inv1)

\* the wrappers' before phases, in order, and their after phases, reversed
BeforePhase(wrappers, kwargs) ==
    [i \in 1..Len(wrappers) |-> Event("before", wrappers[i], kwargs)]
AfterPhase(wrappers, kwargs) ==
    [i \in 1..Len(wrappers) |-> Event("after", wrappers[Len(wrappers) + 1 - i], kwargs)]

\* the outcome of a dispatch whose inner loop ended as inner: the wrappers
\* are closed innermost first, each one resumed with the outcome in progress;
\* a wrapper that replaces it makes it a success, so the replacement of the
\* outermost such wrapper is what the invoker gets
Outcome(inner, wrappers, kwargs, firstresult) ==
    LET F == {i \in 1..Len(wrappers) : wrappers[i].ret.kind = "force"}
        k == CHOOSE i \in F : \A j \in F : i <= j
    IN [exc |-> IF F = {} THEN inner.exc ELSE "none",
        results |-> IF F = {}
                    THEN [i \in 1..Len(inner.results) |-> inner.results[i].v]
                    ELSE << wrappers[k].ret.v >>,
        producers |-> IF F = {}
                      THEN [i \in 1..Len(inner.results) |-> inner.results[i].impl]
                      ELSE << wrappers[k] >>,
        single |-> firstresult,
        forced |-> F # {},
        inv |-> inner.inv \o AfterPhase(wrappers, kwargs)]

multicall(impls, kwargs, firstresult) ==
    LET IsWrapper(impl) == impl.hookwrapper
        NonWrapper(impl) == ~impl.hookwrapper
    IN Outcome(InnerLoop(SelectSeq(impls, NonWrapper), 1, kwargs, firstresult, << >>,
                         BeforePhase(SelectSeq(impls, IsWrapper), kwargs)),
               SelectSeq(impls, IsWrapper), kwargs, firstresult)

\* replay of the stored historic calls through one new implementation,
\* design document section 4.2; a log entry is [kwargs, callback]
RECURSIVE ApplyHistoryLoop(_, _, _, _)
RECURSIVE ApplyHistoryNext(_, _, _, _, _)
ApplyHistoryLoop(history, i, hookimpl, inv) ==
    IF i > Len(history)
    THEN [exc |-> "none", inv |-> inv]
    ELSE ApplyHistoryNext(multicall(<< hookimpl >>, history[i].kwargs, FALSE),
                          history, i, hookimpl, inv)

\* res is the outcome of replaying entry i
ApplyHistoryNext(res, history, i, hookimpl, inv) ==
    LET entry == history[i]
        cb == IF res.exc = "none" /\ res.results # << >> /\ entry.callback # NoCallback
              THEN << CallbackEvent(entry.callback, hookimpl, entry.kwargs,
                                    res.results[1]) >>
              ELSE << >>
    IN IF res.exc # "none"
       THEN [exc |-> res.exc, inv |-> inv \o res.inv]
       ELSE ApplyHistoryLoop(history, i + 1, hookimpl, inv \o res.inv \o cb)

maybe_apply_history(caller, hookimpl) ==
    IF is_historic(caller)
    THEN ApplyHistoryLoop(caller.history, 1, hookimpl, << >>)
    ELSE [exc |-> "none", inv |-> << >>]

(***************************************************************************)
(* PluginManager (manager.py).  s is the registry:                         *)
(*   s.plugins   self.plugins, name -> plugin object, in insertion order   *)
(*   s.p2hc      self._plugin2hookcallers, object -> list of hook names    *)
(*   s.blocked   self._blocked                                             *)
(*   s.hook      the relay's dict, hook name -> HookCaller                 *)
(*   s.nd        self.hook._needs_discovery                                *)
(***************************************************************************)
PluginErrors == {"PluginImportError", "PluginRegistrationError", "PluginValidationError"}

is_registered_name(s, name) == name \in DictKeys(s.plugins)
is_registered_obj(s, obj) == obj \in DOMAIN s.p2hc
is_blocked(s, plugin_name) == plugin_name \in s.blocked

\* the first name, in insertion order, whose value is the plugin
get_name(s, plugin) ==
    LET I == {i \in 1..Len(s.plugins) : s.plugins[i].obj = plugin}
    IN IF I = {} THEN NoName
       ELSE s.plugins[CHOOSE i \in I : \A j \in I : i <= j].name

\* _verify_hook without the comparison of the parameter names
verify_hook_no_argnames(caller, hookimpl) ==
    IF is_historic(caller) /\ hookimpl.hookwrapper THEN "PluginValidationError"
    ELSE "ok"

\* _verify_hook without the test for a wrapper on a historic caller
verify_hook_no_historic(caller, hookimpl) ==
    IF ~caller.spec.bound THEN "ok"
    ELSE IF hookimpl.argnames \ caller.spec.argnames # {} THEN "PluginValidationError"
    ELSE "ok"

verify_hook(caller, hookimpl) ==
    IF is_historic(caller) /\ hookimpl.hookwrapper THEN "PluginValidationError"
    ELSE IF ~caller.spec.bound THEN "ok"
    ELSE IF hookimpl.argnames \ caller.spec.argnames # {} THEN "PluginValidationError"
    ELSE "ok"

\* _inner_hookexec that never passes the caller's firstresult option
inner_hookexec_all(caller, methods, kwargs) ==
    multicall(methods, kwargs, FALSE)

\* _inner_hookexec that hands back a normal result whatever happened
inner_hookexec_swallow(caller, methods, kwargs) ==
    [multicall(methods, kwargs, is_firstresult(caller)) EXCEPT !.exc = "none"]

\* _inner_hookexec that stops every dispatch at the first result
inner_hookexec_first(caller, methods, kwargs) ==
    multicall(methods, kwargs, TRUE)

\* self._inner_hookexec as set by __init__
inner_hookexec(caller, methods, kwargs) ==
    multicall(methods, kwargs, is_firstresult(caller))

\* _hookexec that checks the call arguments against all implementations
\* before it dispatches
hookexec_checked(caller, methods, kwargs) ==
    IF \E i \in 1..Len(methods) : ~(methods[i].argnames \subseteq DOMAIN kwargs)
    THEN [exc |-> "HookCallError", results |-> << >>, producers |-> << >>,
          single |-> is_firstresult(caller), forced |-> FALSE, inv |-> << >>]
    ELSE inner_hookexec(caller, methods, kwargs)

\* _hookexec that dispatches the caller's own list whatever it is handed
hookexec_attached_only(caller, methods, kwargs) ==
    inner_hookexec(caller, DispatchOrder(caller), kwargs)

\* _hookexec that leaves the wrappers out
hookexec_no_wrappers(caller, methods, kwargs) ==
    LET T(impl) == ~impl.hookwrapper
    IN inner_hookexec(caller, SelectSeq(methods, T), kwargs)

\* _hookexec that hands the implementations over in the opposite order
hookexec_reversed(caller, methods, kwargs) ==
    inner_hookexec(caller, Reverse(methods), kwargs)

hookexec(caller, methods, kwargs) == inner_hookexec(caller, methods, kwargs)

RECURSIVE RemoveLoop(_, _, _, _)
RemoveLoop(hk, hookcallers, i, plugin) ==
    IF i > Len(hookcallers) THEN hk
    ELSE RemoveLoop([hk EXCEPT ![hookcallers[i]] = remove_plugin(hk[hookcallers[i]], plugin)],
                    hookcallers, i + 1, plugin)

\* unregister that lets the KeyError of _ensure_plugin through
unregister_raises(s, name_or_object, is_str) ==
    LET plugin_name == IF is_str THEN name_or_object ELSE get_name(s, name_or_object)
    IN IF plugin_name \notin DictKeys(s.plugins)
       THEN [st |-> s, res |-> "KeyError"]
       ELSE LET plugin == DictGet(s.plugins, plugin_name)
                popped == IF plugin \in DOMAIN s.p2hc THEN s.p2hc[plugin] ELSE << >>
            IN [st |-> [s EXCEPT !.plugins = DictDel(s.plugins, get_name(s, plugin)),
                                 !.p2hc = MapDel(s.p2hc, plugin),
                                 !.hook = RemoveLoop(s.hook, popped, 1, plugin)],
                res |-> plugin]

\* is_str: the argument is a plugin name; otherwise it is a plugin object
unregister(s, name_or_object, is_str) ==
    LET plugin_name == IF is_str THEN name_or_object ELSE get_name(s, name_or_object)
    IN IF plugin_name \notin DictKeys(s.plugins)
       THEN [st |-> s, res |-> "None"]
       ELSE LET plugin == DictGet(s.plugins, plugin_name)
                popped == IF plugin \in DOMAIN s.p2hc THEN s.p2hc[plugin] ELSE << >>
            IN [st |-> [s EXCEPT !.plugins = DictDel(s.plugins, get_name(s, plugin)),
                                 !.p2hc = MapDel(s.p2hc, plugin),
                                 !.hook = RemoveLoop(s.hook, popped, 1, plugin)],
                res |-> plugin]

set_blocked(s, plugin_name, blocked_flag) ==
    IF blocked_flag
    THEN LET s1 == [s EXCEPT !.blocked = s.blocked \cup {plugin_name}]
         IN IF is_registered_name(s1, plugin_name)
            THEN unregister(s1, plugin_name, TRUE).st
            ELSE s1
    ELSE [s EXCEPT !.blocked = s.blocked \ {plugin_name}]

\* an attachment that appends the implementation whatever its priority
attach_append(hook_caller, hookimpl) ==
    [hook_caller EXCEPT !.impls = Append(@, hookimpl)]

\* hook_caller._add_hookimpl(hookimpl) as register calls it
attach(hook_caller, hookimpl) == add_hookimpl(hook_caller, hookimpl)

\* add_hookspecs that binds the specification without looking at the
\* implementations already attached
verify_existing_skipped(hook_caller) == "ok"

\* the validation of the already attached implementations in add_hookspecs
verify_existing(hook_caller) ==
    LET impls == get_hookimpls(hook_caller)
    IN IF \E k \in 1..Len(impls) : verify_hook(hook_caller, impls[k]) # "ok"
       THEN "PluginValidationError"
       ELSE "ok"

RECURSIVE register(_, _, _)
RECURSIVE RegisterLoop(_, _, _, _, _, _)
RECURSIVE RegisterNext(_, _, _, _, _)
RECURSIVE hook_getattr(_)
RECURSIVE discover(_, _)
RECURSIVE load_and_register(_, _, _)
RECURSIVE LoadEntrypointsLoop(_, _, _, _, _, _)
RECURSIVE LoadEntrypointsNext(_, _, _, _, _, _)
RECURSIVE LoadModulesLoop(_, _, _, _, _, _, _)
RECURSIVE LoadModulesNext(_, _, _, _, _, _, _)

\* what the caller of a relay access sees of the discovery pass d it started
Relayed(d) == [st |-> d.st, inv |-> d.inv]

\* _HookRelay.__getattribute__ for a name that is not exempt
hook_getattr(s) ==
    IF s.nd
    THEN Relayed(discover(s, TRUE))
    ELSE [st |-> s, inv |-> << >>]

\* register's handling of an implementation whose hook caller exists; h is
\* the outcome of the historic replay, made only for a caller with a spec
RegisterExisting(s1, hookimpl, inv1, h) ==
    LET specname == hookimpl.specname
        hook_caller == s1.hook[specname]
        added == [s1 EXCEPT !.hook[specname] = attach(hook_caller, hookimpl)]
    IN IF ~has_spec(hook_caller)
       THEN [stop |-> FALSE, st |-> added, res |-> "ok", inv |-> inv1]
       ELSE IF verify_hook(hook_caller, hookimpl) # "ok"
       THEN [stop |-> TRUE, st |-> s1, res |-> "PluginValidationError", inv |-> inv1]
       ELSE IF h.exc # "none"
       THEN [stop |-> TRUE, st |-> s1, res |-> h.exc, inv |-> inv1 \o h.inv]
       ELSE [stop |-> FALSE, st |-> added, res |-> "ok", inv |-> inv1 \o h.inv]

\* a pass of register's loop body that never replays the historic calls
RegisterStep_no_replay(g, hookimpl, inv) ==
    LET s1 == g.st
        inv1 == inv \o g.inv
        specname == hookimpl.specname
    IN IF specname \notin DOMAIN s1.hook
       THEN [stop |-> FALSE,
             st |-> [s1 EXCEPT !.hook = MapSet(s1.hook, specname,
                                   attach(HookCaller(specname, NoSpec), hookimpl))],
             res |-> "ok", inv |-> inv1]
       ELSE RegisterExisting(s1, hookimpl, inv1, [exc |-> "none", inv |-> << >>])

\* one pass of register's loop body; g is the outcome of the relay access
RegisterStep(g, hookimpl, inv) ==
    LET s1 == g.st
        inv1 == inv \o g.inv
        specname == hookimpl.specname
    IN IF specname \notin DOMAIN s1.hook
       THEN [stop |-> FALSE,
             st |-> [s1 EXCEPT !.hook = MapSet(s1.hook, specname,
                                   attach(HookCaller(specname, NoSpec), hookimpl))],
             res |-> "ok", inv |-> inv1]
       ELSE RegisterExisting(s1, hookimpl, inv1,
                             maybe_apply_history(s1.hook[specname], hookimpl))

\* the loop over iter_implementations(namespace) and the recording after it
RegisterLoop(s, namespace, plugin_name, i, hookcallers, inv) ==
    LET impls == iter_implementations(namespace) IN
    IF i > Len(impls)
    THEN [st |-> [s EXCEPT !.p2hc = MapSet(s.p2hc, namespace, hookcallers),
                           !.plugins = DictSet(s.plugins, plugin_name, namespace)],
          res |-> plugin_name, inv |-> inv]
    ELSE RegisterNext(RegisterStep(hook_getattr(s), impls[i], inv),
                      namespace, plugin_name, i, hookcallers)

\* a raise ends the loop; otherwise the hook caller is noted and the loop
\* goes on
RegisterNext(step, namespace, plugin_name, i, hookcallers) ==
    IF step.stop
    THEN [st |-> step.st, res |-> step.res, inv |-> step.inv]
    ELSE RegisterLoop(step.st, namespace, plugin_name, i + 1,
                      Append(hookcallers, iter_implementations(namespace)[i].specname),
                      step.inv)

\* register that looks for duplicates before it looks at the blocklist
register_duplicates_first(s, namespace, name) ==
    LET plugin_name == IF name = NoName THEN get_canonical_name(namespace) ELSE name
    IN IF is_registered_name(s, plugin_name)
       THEN [st |-> s, res |-> "ValueError", inv |-> << >>]
       ELSE IF is_registered_obj(s, namespace)
       THEN [st |-> s, res |-> "ValueError", inv |-> << >>]
       ELSE IF is_blocked(s, plugin_name)
       THEN [st |-> s, res |-> "None", inv |-> << >>]
       ELSE RegisterLoop(s, namespace, plugin_name, 1, << >>, << >>)

register(s, namespace, name) ==
    LET plugin_name == IF name = NoName THEN get_canonical_name(namespace) ELSE name
    IN IF is_blocked(s, plugin_name)
       THEN [st |-> s, res |-> "None", inv |-> << >>]
       ELSE IF is_registered_name(s, plugin_name)
       THEN [st |-> s, res |-> "ValueError", inv |-> << >>]
       ELSE IF is_registered_obj(s, namespace)
       THEN [st |-> s, res |-> "ValueError", inv |-> << >>]
       ELSE RegisterLoop(s, namespace, plugin_name, 1, << >>, << >>)

\* the exceptions of register that are not plugin errors are wrapped
Wrapped(r) ==
    IF r.res \in {"ValueError", "ImplError", "HookCallError"}
    THEN [r EXCEPT !.res = "PluginRegistrationError"]
    ELSE r

\* mod is an entry point or a module name of the discovery collaborator
load_and_register(s, mod, plugin_name) ==
    IF ~mod.loads
    THEN [st |-> s, res |-> "PluginImportError", inv |-> << >>]
    ELSE IF is_registered_obj(s, mod.module)
    THEN [st |-> s, res |-> "None", inv |-> << >>]
    ELSE Wrapped(register(s, mod.module, plugin_name))

LoadEntrypointsLoop(s, i, count, errors, inv, ignore_errors) ==
    IF i > Len(EntryPoints)
    THEN [st |-> s, res |-> "ok", count |-> count, errs |-> errors, inv |-> inv]
    ELSE IF is_registered_name(s, EntryPoints[i].name) \/ is_blocked(s, EntryPoints[i].name)
    THEN LoadEntrypointsLoop(s, i + 1, count, errors, inv, ignore_errors)
    ELSE LoadEntrypointsNext(load_and_register(s, EntryPoints[i], EntryPoints[i].name),
                             i, count, errors, inv, ignore_errors)

\* r is the outcome of _load_and_register for entry point i
LoadEntrypointsNext(r, i, count, errors, inv, ignore_errors) ==
    LET ep == EntryPoints[i]
        errors2 == Append(errors, [name |-> ep.name, error |-> r.res])
    IN IF r.res \in PluginErrors
       THEN IF ignore_errors
            THEN LoadEntrypointsLoop(set_blocked(r.st, ep.name, TRUE), i + 1, count,
                                     errors2, inv \o r.inv, ignore_errors)
            ELSE [st |-> set_blocked(r.st, ep.name, TRUE), res |-> r.res,
                  count |-> count, errs |-> errors2, inv |-> inv \o r.inv]
       ELSE LoadEntrypointsLoop(r.st, i + 1,
                                IF r.res = "None" THEN count ELSE count + 1,
                                errors, inv \o r.inv, ignore_errors)

load_entrypoints(s, ignore_errors) ==
    LoadEntrypointsLoop(s, 1, 0, << >>, << >>, ignore_errors)

LoadModulesLoop(s, prefix, i, count, errors, inv, ignore_errors) ==
    LET modules == ModulesWithPrefix(prefix) IN
    IF i > Len(modules)
    THEN [st |-> s, res |-> "ok", count |-> count, errs |-> errors, inv |-> inv]
    ELSE IF is_registered_name(s, modules[i].name) \/ is_blocked(s, modules[i].name)
    THEN LoadModulesLoop(s, prefix, i + 1, count, errors, inv, ignore_errors)
    ELSE LoadModulesNext(load_and_register(s, modules[i], modules[i].name),
                         prefix, i, count, errors, inv, ignore_errors)

\* r is the outcome of _load_and_register for module i
LoadModulesNext(r, prefix, i, count, errors, inv, ignore_errors) ==
    LET m == ModulesWithPrefix(prefix)[i]
        errors2 == Append(errors, [name |-> m.name, error |-> r.res])
    IN IF r.res \in PluginErrors
       THEN IF ignore_errors
            THEN LoadModulesLoop(set_blocked(r.st, m.name, TRUE), prefix, i + 1, count,
                                 errors2, inv \o r.inv, ignore_errors)
            ELSE [st |-> set_blocked(r.st, m.name, TRUE), res |-> r.res,
                  count |-> count, errs |-> errors2, inv |-> inv \o r.inv]
       ELSE LoadModulesLoop(r.st, prefix, i + 1,
                            IF r.res = "None" THEN count ELSE count + 1,
                            errors, inv \o r.inv, ignore_errors)

load_modules_by_prefix(s, prefix, ignore_errors) ==
    LoadModulesLoop(s, prefix, 1, 0, << >>, << >>, ignore_errors)

\* the counts and errors of the two scans, le and lm, added up
Discovered(le, lm) ==
    [st |-> lm.st, res |-> lm.res, count |-> le.count + lm.count,
     errs |-> le.errs \o lm.errs, inv |-> le.inv \o lm.inv]

\* the scan of the modules after the scan le of the entry points; an error
\* raised by the first scan ends the pass
DiscoverModules(le, prefix, ignore_errors) ==
    IF le.res # "ok" THEN le
    ELSE Discovered(le, load_modules_by_prefix(le.st, prefix, ignore_errors))

\* a pass that sets the flag again when it is over
Rearm(d) == [d EXCEPT !.st.nd = TRUE]
discover_rearmed(s, prefix, ignore_errors) ==
    Rearm(DiscoverModules(load_entrypoints([s EXCEPT !.nd = FALSE, !.passes = @ + 1],
                                           ignore_errors),
                          prefix, ignore_errors))

\* discover(prefix=prefix, ignore_errors=ignore_errors); passes counts the
\* discovery passes begun since the host's call began
discover_with_prefix(s, prefix, ignore_errors) ==
    DiscoverModules(load_entrypoints([s EXCEPT !.nd = FALSE, !.passes = @ + 1],
                                     ignore_errors),
                    prefix, ignore_errors)

\* a context entry that saves the flag and leaves it as it is
discovery_blocked_enter_keeps(s) == [st |-> s, current |-> s.nd]

\* discovery_blocked up to its yield: the flag is saved and cleared
discovery_blocked_enter(s) ==
    [st |-> [s EXCEPT !.nd = FALSE], current |-> s.nd]

\* the finally clause of discovery_blocked
discovery_blocked_exit(s, current) == [s EXCEPT !.nd = current]

\* discover(ignore_errors=ignore_errors): the prefix is self.discover_prefix
discover(s, ignore_errors) == discover_with_prefix(s, discover_prefix, ignore_errors)

\* add_hookspecs for one specification; g is the outcome of the relay access
AddHookspecsStep(g, spec, inv) ==
    LET s1 == g.st
        inv1 == inv \o g.inv
        b == set_specification(s1.hook[spec.name], spec)
        s2 == [s1 EXCEPT !.hook[spec.name] = b.caller]
    IN IF spec.name \notin DOMAIN s1.hook
       THEN [stop |-> FALSE, res |-> "ok", inv |-> inv1,
             st |-> [s1 EXCEPT !.hook = MapSet(s1.hook, spec.name,
                                                 HookCaller(spec.name, spec))]]
       ELSE IF ~b.ok
       THEN [stop |-> TRUE, st |-> s1, res |-> "AssertionError", inv |-> inv1]
       ELSE IF verify_existing(b.caller) # "ok"
       THEN [stop |-> TRUE, st |-> s2, res |-> "PluginValidationError", inv |-> inv1]
       ELSE [stop |-> FALSE, st |-> s2, res |-> "ok", inv |-> inv1]

RECURSIVE AddHookspecsLoop(_, _, _, _)
RECURSIVE AddHookspecsNext(_, _, _)
AddHookspecsLoop(s, namespace, i, inv) ==
    LET specs == SpecsOf(namespace) IN
    IF i > Len(specs)
    THEN [st |-> s, res |-> IF Len(specs) = 0 THEN "ValueError" ELSE "ok", inv |-> inv]
    ELSE AddHookspecsNext(AddHookspecsStep(hook_getattr(s), specs[i], inv), namespace, i)

AddHookspecsNext(step, namespace, i) ==
    IF step.stop
    THEN [st |-> step.st, res |-> step.res, inv |-> step.inv]
    ELSE AddHookspecsLoop(step.st, namespace, i + 1, step.inv)

\* add_hookspecs that accepts a namespace without specifications
Silenced(r) == IF r.res = "ValueError" THEN [r EXCEPT !.res = "ok"] ELSE r
add_hookspecs_silent(s, namespace) == Silenced(AddHookspecsLoop(s, namespace, 1, << >>))

add_hookspecs(s, namespace) == AddHookspecsLoop(s, namespace, 1, << >>)

\* check_pending once the relay has handed out its dict: g is the outcome of
\* the access self.hook.__dict__
CheckPendingOn(g) ==
    [st |-> g.st,
     res |-> IF \E h \in DOMAIN g.st.hook :
                  /\ ~has_spec(g.st.hook[h])
                  /\ \E i \in 1..Len(get_hookimpls(g.st.hook[h])) :
                        ~get_hookimpls(g.st.hook[h])[i].optionalhook
             THEN "PluginValidationError"
             ELSE "None",
     inv |-> g.inv]

check_pending(s) == CheckPendingOn(hook_getattr(s))

\* the result of a live call of a hook caller that the relay does not have
NoSuchHook(g) ==
    [st |-> g.st, res |-> "AttributeError", val |-> << >>, single |-> FALSE, inv |-> g.inv]

\* HookCaller.__call__ once the relay has answered with g; r is the outcome
\* of the dispatch
Called(g, r) ==
    [st |-> g.st, res |-> IF r.exc = "none" THEN "ok" ELSE r.exc,
     val |-> IF r.exc = "none" THEN r.results ELSE << >>,
     single |-> r.single, inv |-> g.inv \o r.inv]

CallOn(g, hookname, kwargs) ==
    IF hookname \notin DOMAIN g.st.hook
    THEN NoSuchHook(g)
    ELSE Called(g, hookexec(g.st.hook[hookname],
                            DispatchOrder(g.st.hook[hookname]), kwargs))

\* pm.hook.<hookname>(**kwargs): relay access, then HookCaller.__call__
call(s, hookname, kwargs) == CallOn(hook_getattr(s), hookname, kwargs)

\* call_historic once the relay has answered with g, design document
\* section 4.6: dispatch (outcome r), one callback per result, then the log
\* entry
CalledHistoric(g, r, hookname, kwargs, callback) ==
    LET s1 == g.st
        cbs == IF callback # NoCallback
               THEN [i \in 1..Len(r.producers) |->
                        CallbackEvent(callback, r.producers[i], kwargs, r.results[i])]
               ELSE << >>
        entry == [kwargs |-> kwargs, callback |-> callback]
    IN IF r.exc # "none"
       THEN [st |-> s1, res |-> r.exc, val |-> << >>, single |-> FALSE,
             inv |-> g.inv \o r.inv]
       ELSE [st |-> [s1 EXCEPT !.hook[hookname].history = Append(@, entry)],
             res |-> "ok", val |-> r.results, single |-> FALSE,
             inv |-> g.inv \o r.inv \o cbs]

CallHistoricOn(g, hookname, kwargs, callback) ==
    IF hookname \notin DOMAIN g.st.hook
    THEN NoSuchHook(g)
    ELSE IF ~is_historic(g.st.hook[hookname])
    THEN NoSuchHook(g)
    ELSE CalledHistoric(g, hookexec(g.st.hook[hookname],
                                    DispatchOrder(g.st.hook[hookname]), kwargs),
                        hookname, kwargs, callback)

\* pm.hook.<hookname>.call_historic(result_callback, kwargs)
call_historic(s, hookname, kwargs, callback) ==
    CallHistoricOn(hook_getattr(s), hookname, kwargs, callback)

\* a bare callable handed to call_extra, as a neutral implementation that is
\* no wrapper and belongs to no plugin
ExtraImpl(function, specname, argnames, ret) ==
    HookImplementation(NoObj, function, specname, argnames, FALSE, FALSE, "neutral", ret)

\* call_extra once the relay has answered with g, design document section
\* 4.6: the extras are appended to the caller's list for this dispatch only
CallExtraOn(g, hookname, extras, kwargs) ==
    IF hookname \notin DOMAIN g.st.hook
    THEN NoSuchHook(g)
    ELSE Called(g, hookexec(g.st.hook[hookname],
                            DispatchOrder(g.st.hook[hookname]) \o extras, kwargs))

\* pm.hook.<hookname>.call_extra(extras, kwargs)
call_extra(s, hookname, extras, kwargs) ==
    CallExtraOn(hook_getattr(s), hookname, extras, kwargs)

(***************************************************************************)
(* Dispatch of implementations that change the registry while they are     *)
(* invoked.  The registry is handed from one invocation to the next; the   *)
(* list the loop iterates over is the list that HookCaller.__call__ handed *)
(* to _hookexec when the dispatch began (design document, section 5: the   *)
(* ordered-list mutation and the iteration snapshot are decoupled).        *)
(***************************************************************************)
\* what the body of the implementation does to the registry s: the function
\* of r1 calls register(r3), that of r2 unregister(r3) and that of r4
\* register(r5), and none lets an exception of that call out
SideEffect(s, impl) ==
    CASE impl.plugin = "r1" -> register(s, "r3", NoName).st
      [] impl.plugin = "r2" -> unregister(s, "r3", FALSE).st
      [] impl.plugin = "r4" -> register(s, "r5", NoName).st
      [] OTHER -> s

\* the plugin code that the call made by the body ran: the replay of the
\* historic calls into the plugin it registered
SideCalls(s, impl) ==
    CASE impl.plugin = "r1" -> register(s, "r3", NoName).inv
      [] impl.plugin = "r4" -> register(s, "r5", NoName).inv
      [] OTHER -> << >>

\* a loop that looks at the list attached to the caller at every step
IterationList_live(s, hookname, methods) == DispatchOrder(s.hook[hookname])

\* the list the loop of multicall takes its next implementation from, when
\* the registry has become s since the dispatch began with the list methods
IterationList(s, hookname, methods) == methods

\* the loop of multicall for implementations that are no wrappers, take no
\* argument that is missing and do not raise
RECURSIVE ReentrantLoop(_, _, _, _, _, _)
ReentrantLoop(s, hookname, methods, i, kwargs, inv) ==
    IF i > Len(IterationList(s, hookname, methods))
    THEN [st |-> s, inv |-> inv]
    ELSE ReentrantLoop(SideEffect(s, IterationList(s, hookname, methods)[i]),
                       hookname, methods, i + 1, kwargs,
                       Append(inv, Event("call", IterationList(s, hookname, methods)[i],
                                         kwargs))
                       \o SideCalls(s, IterationList(s, hookname, methods)[i]))

\* HookCaller.__call__ once the relay has answered with g: the results are
\* those of the dispatch of the list attached when it began, the registry is
\* the one the invoked implementations left
CallReentrantOn(g, hookname, kwargs) ==
    IF hookname \notin DOMAIN g.st.hook
    THEN [st |-> g.st, res |-> "AttributeError", attached |-> << >>, inv |-> g.inv]
    ELSE [ReentrantLoop(g.st, hookname, DispatchOrder(g.st.hook[hookname]), 1, kwargs,
                        << >>)
          EXCEPT !.inv = g.inv \o @]
         @@ [res |-> "ok", attached |-> DispatchOrder(g.st.hook[hookname])]

call_reentrant(s, hookname, kwargs) == CallReentrantOn(hook_getattr(s), hookname, kwargs)

\* the end of call_historic, design document section 4.6: r is the outcome
\* of the dispatch, after which the entry is appended to the replay log
LoggedAfter(r, hookname, kwargs) ==
    [st |-> [r.st EXCEPT !.hook[hookname].history =
                            Append(@, [kwargs |-> kwargs, callback |-> NoCallback])],
     res |-> "ok", inv |-> r.inv]

\* call_historic without result callback once the relay has answered with g,
\* for implementations that change the registry while they are invoked
CallHistoricReentrantOn(g, hookname, kwargs) ==
    IF hookname \notin DOMAIN g.st.hook
    THEN [st |-> g.st, res |-> "AttributeError", inv |-> g.inv]
    ELSE IF ~is_historic(g.st.hook[hookname])
    THEN [st |-> g.st, res |-> "AttributeError", inv |-> g.inv]
    ELSE LoggedAfter(ReentrantLoop(g.st, hookname, DispatchOrder(g.st.hook[hookname]),
                                   1, kwargs, g.inv),
                     hookname, kwargs)

(***************************************************************************)
(* Call monitoring.  The field _inner_hookexec is a chain of closures: the *)
(* lambda set by __init__, wrapped by one traced_hookexec for every        *)
(* add_hookcall_monitoring.  It is modelled by the sequence of the         *)
(* monitors of these closures, the innermost first; the empty sequence is  *)
(* the lambda itself.  A monitor is a pair of functions (before, after).   *)
(***************************************************************************)
Monitors == {"t1", "t2"}

\* the call before(caller.name, impls, kwargs) or after(outcome, ...) of the
\* monitor; outcome is the exception the outcome carries, "none" without one
MonitorEvent(ev, monitor, kwargs, outcome) ==
    [ev |-> ev, plugin |-> NoObj, function |-> monitor, args |-> kwargs,
     cb |-> NoCallback, v |-> 0, outcome |-> outcome]

\* HookResult.from_call(func): what func returned, or the exception it
\* raised, as an outcome (callers.py, not among the sources at hand); the
\* outcomes of the model carry the exception already
from_call(outcome) == outcome

\* a traced_hookexec that leaves out the call of after when the outcome
\* carries an exception
Traced_after_on_success(monitor, kwargs, outcome) ==
    [outcome EXCEPT !.inv = << MonitorEvent("monitor_before", monitor, kwargs, "none") >> \o @
                            \o IF outcome.exc = "none"
                               THEN << MonitorEvent("monitor_after", monitor, kwargs, "none") >>
                               ELSE << >>]

\* the body of traced_hookexec; outcome is what from_call made of oldcall
Traced(monitor, kwargs, outcome) ==
    [outcome EXCEPT !.inv = << MonitorEvent("monitor_before", monitor, kwargs, "none") >> \o @
                            \o << MonitorEvent("monitor_after", monitor, kwargs, outcome.exc) >>]

\* self._inner_hookexec(caller, impls, kwargs) when the field is the chain
\* inner
RECURSIVE traced_hookexec(_, _, _, _)
traced_hookexec(inner, caller, impls, kwargs) ==
    IF inner = << >>
    THEN inner_hookexec(caller, impls, kwargs)
    ELSE Traced(inner[Len(inner)], kwargs,
                from_call(traced_hookexec(SubSeq(inner, 1, Len(inner) - 1),
                                          caller, impls, kwargs)))

\* add_hookcall_monitoring(before, after) of the monitor: the new value of
\* the field, and the oldcall that the returned undo closure holds
add_hookcall_monitoring(inner, monitor) ==
    [inner |-> Append(inner, monitor), oldcall |-> inner]

\* undo(): the value of the field after the call
undo(oldcall) == oldcall

\* HookCaller.__call__ while the field is the chain inner
CallTracedOn(g, inner, hookname, kwargs) ==
    IF hookname \notin DOMAIN g.st.hook
    THEN NoSuchHook(g)
    ELSE Called(g, traced_hookexec(inner, g.st.hook[hookname],
                                   DispatchOrder(g.st.hook[hookname]), kwargs))

call_traced(s, inner, hookname, kwargs) ==
    CallTracedOn(hook_getattr(s), inner, hookname, kwargs)

(***************************************************************************)
(* The state machine: one action per call the host makes on the manager.   *)
(* last records the most recent call: its arguments and what it returned   *)
(* or raised.                                                              *)
(***************************************************************************)
State == [plugins |-> plugins, p2hc |-> plugin2hookcallers, blocked |-> blocked,
          hook |-> hook, nd |-> needs_discovery, passes |-> 0]

\* the bounds of the model
Bounded(s) ==
    \A h \in DOMAIN s.hook : /\ Len(s.hook[h].impls) <= MaxImpls
                             /\ Len(s.hook[h].history) <= MaxHistory

\* the manager's fields after a call
Assign(s) ==
    /\ plugins' = s.plugins
    /\ plugin2hookcallers' = s.p2hc
    /\ blocked' = s.blocked
    /\ hook' = s.hook
    /\ needs_discovery' = s.nd

SetState(s) ==
    /\ Bounded(s)
    /\ Assign(s)
    /\ tracers' = tracers
    /\ journal' = journal

NoCall == [op |-> "init", name |-> NoName, hookname |-> NoHook, res |-> "None"]

\* PluginManager.__init__ and _HookRelay.__init__
Init ==
    /\ plugins = << >>
    /\ plugin2hookcallers = [x \in {} |-> << >>]
    /\ blocked = {}
    /\ hook = [x \in {} |-> HookCaller(NoHook, NoSpec)]
    /\ needs_discovery = TRUE
    /\ tracers = << >>
    /\ last = NoCall
    /\ journal = << >>

Register(obj, name) ==
    LET r == register(State, obj, name)
    IN /\ SetState(r.st)
       /\ last' = [NoCall EXCEPT !.op = "register", !.res = r.res]

Unregister(name_or_object, is_str) ==
    LET r == unregister(State, name_or_object, is_str)
    IN /\ SetState(r.st)
       /\ last' = [NoCall EXCEPT !.op = "unregister",
                                 !.name = IF is_str THEN name_or_object ELSE NoName,
                                 !.res = r.res]

SetBlocked(plugin_name, blocked_flag) ==
    /\ SetState(set_blocked(State, plugin_name, blocked_flag))
    /\ last' = [NoCall EXCEPT !.op = IF blocked_flag THEN "set_blocked" ELSE "set_unblocked",
                              !.name = plugin_name]

AddHookspecs(namespace) ==
    LET r == add_hookspecs(State, namespace)
    IN /\ SetState(r.st)
       /\ last' = [NoCall EXCEPT !.op = "add_hookspecs", !.res = r.res]

Discover(ignore_errors) ==
    LET r == discover(State, ignore_errors)
    IN /\ SetState(r.st)
       /\ last' = [NoCall EXCEPT !.op = "discover", !.res = r.res]

LoadEntrypoints(ignore_errors) ==
    LET r == load_entrypoints(State, ignore_errors)
    IN /\ SetState(r.st)
       /\ last' = [NoCall EXCEPT !.op = "load_entrypoints", !.res = r.res]

CheckPending ==
    LET r == check_pending(State)
    IN /\ SetState(r.st)
       /\ last' = [NoCall EXCEPT !.op = "check_pending", !.res = r.res]

Call(hookname, kwargs) ==
    LET r == call(State, hookname, kwargs)
    IN /\ SetState(r.st)
       /\ last' = [NoCall EXCEPT !.op = "call", !.hookname = hookname, !.res = r.res]

CallHistoric(hookname, kwargs, callback) ==
    LET r == call_historic(State, hookname, kwargs, callback)
    IN /\ SetState(r.st)
       /\ last' = [NoCall EXCEPT !.op = "call_historic", !.hookname = hookname,
                                 !.res = r.res]

Next ==
    \/ \E obj \in Objects, name \in Names \cup {NoName} : Register(obj, name)
    \/ \E name \in Names : Unregister(name, TRUE)
    \/ \E obj \in Objects : Unregister(obj, FALSE)
    \/ \E name \in Names, b \in BOOLEAN : SetBlocked(name, b)
    \/ \E namespace \in SpecNamespaces : AddHookspecs(namespace)
    \/ \E ignore_errors \in BOOLEAN : Discover(ignore_errors)
    \/ \E ignore_errors \in BOOLEAN : LoadEntrypoints(ignore_errors)
    \/ CheckPending
    \/ \E hookname \in HookNames, kwargs \in KwargsSet : Call(hookname, kwargs)
    \/ \E hookname \in HookNames, kwargs \in HistoricKwargsSet,
          callback \in {NoCallback, "cb1"} :
          CallHistoric(hookname, kwargs, callback)

Spec == Init /\ [][Next]_vars

(***************************************************************************)
(* The historic hook of test_register_historic, test_with_result_memorized *)
(* and test_with_callbacks_immediately_executed: the host declares the     *)
(* historic specification, makes historic calls and registers plugins.     *)
(* journal records every call the host made: its arguments, what it        *)
(* returned or raised and the plugin code it ran.                          *)
(***************************************************************************)
MaxSteps == 5

HistObjects == {"o4", "o5", "o6"}
HistArgVals == {1, 12}
\* the historic calls the host makes: without a callback, and with two
\* different callbacks
HistCalls == {[arg |-> 1, callback |-> NoCallback], [arg |-> 1, callback |-> "cb1"],
              [arg |-> 12, callback |-> "cb2"]}

Entry(op, obj, arg, callback, r) ==
    [op |-> op, obj |-> obj, arg |-> arg, callback |-> callback,
     res |-> r.res, inv |-> r.inv]

Record(e, s) ==
    /\ Len(journal) < MaxSteps
    /\ Assign(s)
    /\ tracers' = tracers
    /\ journal' = Append(journal, e)
    /\ last' = last

HistAddHookspecs ==
    LET r == add_hookspecs(State, "nsT")
    IN Record(Entry("add_hookspecs", NoObj, 0, NoCallback, r), r.st)

HistCallHistoric(arg, callback) ==
    LET r == call_historic(State, "h3", [x \in {"a"} |-> arg], callback)
    IN Record(Entry("call_historic", NoObj, arg, callback, r), r.st)

HistRegister(obj) ==
    LET r == register(State, obj, NoName)
    IN Record(Entry("register", obj, 0, NoCallback, r), r.st)

HistNext ==
    \/ HistAddHookspecs
    \/ \E c \in HistCalls : HistCallHistoric(c.arg, c.callback)
    \/ \E obj \in HistObjects : HistRegister(obj)

HistoricSpec == Init /\ [][HistNext]_vars

(***************************************************************************)
(* Dispatch through wrappers: the host declares the hook h4 as firstresult *)
(* or as plain hook, registers wrappers and implementations in any order   *)
(* and calls the hook.  journal holds the record of the dispatch made      *)
(* last, until the registry changes.                                       *)
(***************************************************************************)
DispObjects == {"d1", "d2", "d3", "d4", "d5"}
DispNamespaces == {"nsF", "nsG"}

\* the extra callables of test_call_extra (arg * 10) and one that returns
\* nothing
ExtrasSet ==
    {<< ExtraImpl("x1", "h4", {"a"}, RetMul(10)) >>,
     << ExtraImpl("x2", "h4", {}, RetNone), ExtraImpl("x1", "h4", {"a"}, RetMul(10)) >>}

DispEntry(op, kwargs, extras, r) ==
    [op |-> op, kwargs |-> kwargs, extras |-> extras,
     res |-> r.res, val |-> r.val, inv |-> r.inv]

DispRecord(j, s) ==
    /\ Assign(s)
    /\ tracers' = tracers
    /\ journal' = j
    /\ last' = last

DispAddHookspecs(namespace) ==
    DispRecord(<< >>, add_hookspecs(State, namespace).st)

DispRegister(obj) ==
    DispRecord(<< >>, register(State, obj, NoName).st)

DispCall(kwargs) ==
    LET r == call(State, "h4", kwargs)
    IN DispRecord(<< DispEntry("call", kwargs, << >>, r) >>, r.st)

DispCallExtra(extras, kwargs) ==
    LET r == call_extra(State, "h4", extras, kwargs)
    IN DispRecord(<< DispEntry("call_extra", kwargs, extras, r) >>, r.st)

DispNext ==
    \/ \E namespace \in DispNamespaces : DispAddHookspecs(namespace)
    \/ \E obj \in DispObjects : DispRegister(obj)
    \/ \E kwargs \in KwargsSet : DispCall(kwargs)
    \/ \E extras \in ExtrasSet, kwargs \in KwargsSet : DispCallExtra(extras, kwargs)

DispatchSpec == Init /\ [][DispNext]_vars

(***************************************************************************)
(* Lazy discovery and discovery_blocked: the host opens and leaves         *)
(* discovery_blocked contexts, runs discover itself, and registers,        *)
(* declares and calls inside and outside of them.  journal is the stack of *)
(* the open contexts, each with the flag its entry saved; last records the *)
(* step made last, the discovery passes it began, whether any pass has run *)
(* so far, and whether a context that was entered while the flag was set   *)
(* has been left since the last pass.                                      *)
(***************************************************************************)
MaxDepth == 2

LazyObjects == {"o1", "o3"}

HasDiscovered == last.op # "init" /\ last.discovered
Rearmed == last.op # "init" /\ last.rearmed

LazyStep(op, s, stack, entered) ==
    /\ Bounded(s)
    /\ Assign(s)
    /\ tracers' = tracers
    /\ journal' = stack
    /\ last' = [op |-> op, passes |-> s.passes, entered |-> entered,
                discovered |-> HasDiscovered \/ s.passes > 0,
                rearmed |-> IF s.passes > 0 THEN FALSE
                            ELSE IF op \in {"exit", "raise"} /\ entered THEN TRUE
                            ELSE Rearmed]

\* with pm.discovery_blocked(): the entry
LazyEnter ==
    /\ Len(journal) < MaxDepth
    /\ LazyStep("enter", discovery_blocked_enter(State).st,
                Append(journal, [current |-> discovery_blocked_enter(State).current,
                                 entered |-> needs_discovery]),
                needs_discovery)

\* the body of the innermost context ends
LazyExit ==
    /\ Len(journal) > 0
    /\ LazyStep("exit", discovery_blocked_exit(State, journal[Len(journal)].current),
                SubSeq(journal, 1, Len(journal) - 1), journal[Len(journal)].entered)

\* a register call in the body of the innermost context raises and the
\* exception leaves the context
LazyRaise(obj) ==
    LET r == register(State, obj, NoName)
    IN /\ Len(journal) > 0
       /\ r.res \notin Names \cup {"None"}
       /\ LazyStep("raise", discovery_blocked_exit(r.st, journal[Len(journal)].current),
                   SubSeq(journal, 1, Len(journal) - 1), journal[Len(journal)].entered)

LazyDiscover ==
    LazyStep("discover", discover(State, TRUE).st, journal, FALSE)

LazyRegister(obj) ==
    LazyStep("register", register(State, obj, NoName).st, journal, FALSE)

LazyUnregister(obj) ==
    LazyStep("unregister", unregister(State, obj, FALSE).st, journal, FALSE)

LazyAddHookspecs(namespace) ==
    LazyStep("add_hookspecs", add_hookspecs(State, namespace).st, journal, FALSE)

LazyCall(hookname) ==
    LazyStep("call", call(State, hookname, [x \in {"a"} |-> 1]).st, journal, FALSE)

LazyNext ==
    \/ LazyEnter
    \/ LazyExit
    \/ \E obj \in LazyObjects : LazyRaise(obj)
    \/ LazyDiscover
    \/ \E obj \in LazyObjects : LazyRegister(obj)
    \/ \E obj \in LazyObjects : LazyUnregister(obj)
    \/ \E namespace \in {"nsA", "nsH"} : LazyAddHookspecs(namespace)
    \/ \E hookname \in HookNames : LazyCall(hookname)

LazySpec == Init /\ [][LazyNext]_vars

(***************************************************************************)
(* Call monitoring: the host declares h4, registers plugins, installs      *)
(* monitors, calls their undo handles in any order and calls the hook.     *)
(* journal holds the undo handles the host was given, each with the        *)
(* oldcall it holds and whether it has been called; last records the step  *)
(* made last, for a call with the chain it went through and the code that  *)
(* ran.                                                                    *)
(***************************************************************************)
MonObjects == {"d1", "d3", "d4", "d5"}

MonStep(op, s, inner, handles, kwargs, r) ==
    /\ Bounded(s)
    /\ Assign(s)
    /\ tracers' = inner
    /\ journal' = handles
    /\ last' = [op |-> op, kwargs |-> kwargs, chain |-> tracers, res |-> r.res,
                inv |-> r.inv]

NoDispatch == [res |-> "None", inv |-> << >>]

MonAddHookspecs(namespace) ==
    MonStep("add_hookspecs", add_hookspecs(State, namespace).st, tracers, journal,
            NoKwargs, NoDispatch)

MonRegister(obj) ==
    MonStep("register", register(State, obj, NoName).st, tracers, journal,
            NoKwargs, NoDispatch)

MonInstall(monitor) ==
    /\ \A i \in 1..Len(journal) : journal[i].monitor # monitor
    /\ MonStep("install", State, add_hookcall_monitoring(tracers, monitor).inner,
               Append(journal, [monitor |-> monitor, called |-> FALSE,
                                oldcall |-> add_hookcall_monitoring(tracers, monitor).oldcall]),
               NoKwargs, NoDispatch)

MonUndo(i) ==
    /\ ~journal[i].called
    /\ MonStep("undo", State, undo(journal[i].oldcall),
               [journal EXCEPT ![i].called = TRUE], NoKwargs, NoDispatch)

MonCall(kwargs) ==
    LET r == call_traced(State, tracers, "h4", kwargs)
    IN MonStep("call", r.st, tracers, journal, kwargs, r)

MonNext ==
    \/ \E namespace \in DispNamespaces : MonAddHookspecs(namespace)
    \/ \E obj \in MonObjects : MonRegister(obj)
    \/ \E monitor \in Monitors : MonInstall(monitor)
    \/ \E i \in 1..Len(journal) : MonUndo(i)
    \/ \E kwargs \in KwargsSet : MonCall(kwargs)

MonitorSpec == Init /\ [][MonNext]_vars

(***************************************************************************)
(* Registration during a dispatch: the host declares h5, registers,        *)
(* unregisters and blocks the plugins r1, r2 and r3 and calls h5, whose     *)
(* implementations register and unregister r3.  journal holds the record   *)
(* of the dispatch made last, with the list that was attached when it      *)
(* began, until the host changes the registry.                             *)
(***************************************************************************)
ReObjects == {"r1", "r2", "r3"}

ReAddHookspecs ==
    DispRecord(<< >>, add_hookspecs(State, "nsR").st)

ReRegister(obj) ==
    DispRecord(<< >>, register(State, obj, NoName).st)

ReUnregister(obj) ==
    DispRecord(<< >>, unregister(State, obj, FALSE).st)

ReSetBlocked(blocked_flag) ==
    DispRecord(<< >>, set_blocked(State, "p3", blocked_flag))

ReCall(kwargs) ==
    LET r == call_reentrant(State, "h5", kwargs)
    IN DispRecord(<< [op |-> "call", kwargs |-> kwargs, res |-> r.res,
                      attached |-> r.attached, inv |-> r.inv] >>, r.st)

ReNext ==
    \/ ReAddHookspecs
    \/ \E obj \in ReObjects : ReRegister(obj)
    \/ \E obj \in ReObjects : ReUnregister(obj)
    \/ \E b \in BOOLEAN : ReSetBlocked(b)
    \/ \E kwargs \in {NoKwargs, [x \in {"a"} |-> 1]} : ReCall(kwargs)

ReentrantSpec == Init /\ [][ReNext]_vars

(***************************************************************************)
(* Registration during a historic call: the host declares the historic     *)
(* hook h3, registers o4, r4 and r5 and makes historic calls; the          *)
(* implementation of r4 registers r5.  journal records every call the host *)
(* made and the plugin code it ran.                                        *)
(***************************************************************************)
NestObjects == {"o4", "r4", "r5"}

NestAddHookspecs ==
    LET r == add_hookspecs(State, "nsT")
    IN Record(Entry("add_hookspecs", NoObj, 0, NoCallback, r), r.st)

NestRegister(obj) ==
    LET r == register(State, obj, NoName)
    IN Record(Entry("register", obj, 0, NoCallback, r), r.st)

NestCallHistoric(arg) ==
    LET r == CallHistoricReentrantOn(hook_getattr(State), "h3", [x \in {"a"} |-> arg])
    IN Record(Entry("call_historic", NoObj, arg, NoCallback, r), r.st)

NestNext ==
    \/ NestAddHookspecs
    \/ \E obj \in NestObjects : NestRegister(obj)
    \/ \E arg \in HistArgVals : NestCallHistoric(arg)

NestedSpec == Init /\ [][NestNext]_vars

(***************************************************************************)
(* Batch discovery: the host declares specifications, blocks and unblocks  *)
(* names, registers and unregisters plugins by hand and runs the discovery *)
(* passes, in collecting and in strict mode, with the configured prefix    *)
(* and with the shorter one.  journal holds the record of the pass made    *)
(* last, with the registry it started from, until the registry changes.    *)
(***************************************************************************)
MaxAttached == 5

DiscNames == {"n1", "n2", "n3"}
DiscObjects == {"o1", "o2"}
DiscNamespaces == {"nsA", "nsH"}
Prefixes == {discover_prefix, ShortPrefix}

\* the candidates a pass looks at, in the order it looks at them
Candidates(op, prefix) ==
    CASE op = "load_entrypoints" -> EntryPoints
      [] op = "load_modules_by_prefix" -> ModulesWithPrefix(prefix)
      [] OTHER -> EntryPoints \o ModulesWithPrefix(prefix)

PassEntry(op, prefix, ignore_errors, before, r) ==
    [op |-> op, prefix |-> prefix, ignore_errors |-> ignore_errors, before |-> before,
     res |-> r.res, count |-> r.count, errs |-> r.errs]

DiscRecord(j, s) ==
    /\ \A h \in DOMAIN s.hook : Len(s.hook[h].impls) <= MaxAttached
    /\ DispRecord(j, s)

DiscAddHookspecs(namespace) ==
    DiscRecord(<< >>, add_hookspecs(State, namespace).st)

DiscSetBlocked(plugin_name, blocked_flag) ==
    DiscRecord(<< >>, set_blocked(State, plugin_name, blocked_flag))

DiscRegister(obj) ==
    DiscRecord(<< >>, register(State, obj, NoName).st)

DiscUnregister(name) ==
    DiscRecord(<< >>, unregister(State, name, TRUE).st)

DiscDiscover(prefix, ignore_errors) ==
    LET r == discover_with_prefix(State, prefix, ignore_errors)
    IN DiscRecord(<< PassEntry("discover", prefix, ignore_errors, State, r) >>, r.st)

DiscLoadEntrypoints(ignore_errors) ==
    LET r == load_entrypoints(State, ignore_errors)
    IN DiscRecord(<< PassEntry("load_entrypoints", discover_prefix, ignore_errors, State, r) >>,
                  r.st)

DiscLoadModules(prefix, ignore_errors) ==
    LET r == load_modules_by_prefix(State, prefix, ignore_errors)
    IN DiscRecord(<< PassEntry("load_modules_by_prefix", prefix, ignore_errors, State, r) >>,
                  r.st)

DiscNext ==
    \/ \E namespace \in DiscNamespaces : DiscAddHookspecs(namespace)
    \/ \E name \in DiscNames, b \in BOOLEAN : DiscSetBlocked(name, b)
    \/ \E obj \in DiscObjects : DiscRegister(obj)
    \/ \E name \in DiscNames : DiscUnregister(name)
    \/ \E prefix \in Prefixes, ignore_errors \in BOOLEAN : DiscDiscover(prefix, ignore_errors)
    \/ \E ignore_errors \in BOOLEAN : DiscLoadEntrypoints(ignore_errors)
    \/ \E prefix \in Prefixes, ignore_errors \in BOOLEAN :
          DiscLoadModules(prefix, ignore_errors)

DiscoverySpec == Init /\ [][DiscNext]_vars

(***************************************************************************)
(* Properties.  A property about the outcome of a call is stated for every *)
(* reachable registry and every input of the call: the call is applied to  *)
(* the current registry State and its outcome is compared with the claim.  *)
(***************************************************************************)
NameArgs == Names \cup {NoName}
PluginName(obj, name) == IF name = NoName THEN get_canonical_name(obj) ELSE name

\* the implementations of one hook caller owned by a plugin, and the others
OwnedBy(impls, plugin) == LET T(impl) == impl.plugin = plugin IN SelectSeq(impls, T)
NotOwnedBy(impls, plugin) == LET T(impl) == impl.plugin # plugin IN SelectSeq(impls, T)

\* an implementation fits a caller: the caller is unbound, or the parameters
\* are among the specification's and no wrapper meets a historic caller
ImplFits(caller, impl) ==
    \/ ~caller.spec.bound
    \/ /\ impl.argnames \subseteq caller.spec.argnames
       /\ ~(caller.spec.historic /\ impl.hookwrapper)

Fits(s, obj) ==
    \A i \in 1..Len(iter_implementations(obj)) :
        LET impl == iter_implementations(obj)[i]
        IN impl.specname \in DOMAIN s.hook => ImplFits(s.hook[impl.specname], impl)

\* C1: for every name that is not blocked, register(obj, name) raises the
\* duplicate-registration error when the name is in the name table or the
\* object is registered under some name, and then the name table, the
\* plugin-to-hook-callers table, the blocklist and every hook caller's
\* implementation list are as before the call.
C1_DuplicateRegistrationRaises ==
    \A obj \in Objects, name \in NameArgs :
        LET pn == PluginName(obj, name)
            r == register(State, obj, name)
        IN (pn \notin blocked /\ (pn \in DictKeys(plugins) \/ obj \in DictValues(plugins)))
            => (r.res = "ValueError" /\ r.st = State)

\* C2: while a name is blocked, every register call with that canonical name
\* returns no name, raises nothing, runs no plugin code (no historic replay)
\* and leaves the registry as it was; once the name is unblocked, a register
\* of an unregistered, fitting plugin under that free name returns the name
\* and records the plugin.
C2_BlockedRegisterIsNoOp ==
    /\ \A obj \in Objects, name \in NameArgs :
          LET r == register(State, obj, name)
          IN PluginName(obj, name) \in blocked
                => (r.res = "None" /\ r.inv = << >> /\ r.st = State)
    /\ \A pn \in blocked, obj \in Objects :
          LET s1 == set_blocked(State, pn, FALSE)
              r == register(s1, obj, pn)
          IN (/\ pn \notin DictKeys(s1.plugins)
              /\ obj \notin DictValues(s1.plugins)
              /\ obj \notin DOMAIN s1.p2hc
              /\ Fits(s1, obj))
                => (/\ pn \notin s1.blocked
                    /\ r.res = pn
                    /\ pn \in DictKeys(r.st.plugins)
                    /\ DictGet(r.st.plugins, pn) = obj)

\* a blocked name was offered for registration and refused
C2_Witness ==
    /\ last.op = "register"
    /\ last.res = "None"
    /\ blocked # {}
    /\ \E h \in DOMAIN hook : hook[h].history # << >>

\* C3: no name is both blocked and registered; set_blocked(name) on a
\* registered name unregisters it and leaves none of its plugin's
\* implementations in any hook caller.
C3_BlockedNeverRegistered ==
    /\ blocked \cap DictKeys(plugins) = {}
    /\ \A name \in DictKeys(plugins) :
          LET plugin == DictGet(plugins, name)
              s1 == set_blocked(State, name, TRUE)
          IN /\ name \notin DictKeys(s1.plugins)
             /\ \A h \in DOMAIN s1.hook : OwnedBy(s1.hook[h].impls, plugin) = << >>

\* C4: unregister(p) of a registered plugin, by name or by object, removes p
\* from the name table and from the plugin-to-hook-callers table, and every
\* hook caller keeps exactly the implementations of the other plugins, in
\* their order.
UnregisterRemoves(plugin, r) ==
    /\ r.res = plugin
    /\ plugin \notin DictValues(r.st.plugins)
    /\ plugin \notin DOMAIN r.st.p2hc
    /\ DOMAIN r.st.hook = DOMAIN hook
    /\ \A h \in DOMAIN hook : r.st.hook[h].impls = NotOwnedBy(hook[h].impls, plugin)

C4_UnregisterRemovesExactlyOwn ==
    /\ \A name \in DictKeys(plugins) :
          UnregisterRemoves(DictGet(plugins, name), unregister(State, name, TRUE))
    /\ \A obj \in DictValues(plugins) :
          UnregisterRemoves(obj, unregister(State, obj, FALSE))

\* C5: unregister of a name or object that is not in the name table returns
\* the not-found value, raises nothing and leaves the registry, the
\* blocklist included, as it was.
C5_UnregisterUnknownIsNotFound ==
    /\ \A name \in Names \ DictKeys(plugins) :
          LET r == unregister(State, name, TRUE)
          IN r.res = "None" /\ r.st = State
    /\ \A obj \in Objects \ DictValues(plugins) :
          LET r == unregister(State, obj, FALSE)
          IN r.res = "None" /\ r.st = State

\* an unknown but blocked name was unregistered, and is still blocked
C5_Witness ==
    /\ last.op = "unregister"
    /\ last.res = "None"
    /\ last.name \in blocked
    /\ \E h \in DOMAIN hook : hook[h].impls # << >>

\* C6: every hook caller dispatches its implementations priority-first, then
\* neutral, then priority-last, and a successful register puts each new
\* implementation in front of the implementations of its priority group that
\* were attached before it (the most recently registered runs first), leaving
\* the order of the others as it was.  The stored list is the reverse of the
\* dispatch order.
GroupsInOrder(impls) ==
    \A i, j \in 1..Len(impls) :
        i < j => Rank(impls[i].priority) <= Rank(impls[j].priority)

InGroup(impls, priority) ==
    LET T(impl) == impl.priority = priority IN SelectSeq(impls, T)

\* the implementations of a hook caller of the registry, none if it is absent
ImplsOf(s, h) == IF h \in DOMAIN s.hook THEN s.hook[h].impls ELSE << >>

\* the implementations a plugin contributes to a hook, in registration order
Contributed(obj, h) ==
    LET T(impl) == impl.specname = h IN SelectSeq(iter_implementations(obj), T)

C6_DispatchOrder ==
    /\ \A h \in DOMAIN hook : GroupsInOrder(hook[h].impls)
    /\ \A obj \in Objects, name \in NameArgs :
          LET r == register(State, obj, name)
              \* the registry when the first implementation is attached
              s0 == IF iter_implementations(obj) = << >>
                    THEN State ELSE hook_getattr(State).st
          IN r.res \in Names =>
                \A h \in HookNames, priority \in {"first", "neutral", "last"} :
                    InGroup(ImplsOf(r.st, h), priority)
                      = InGroup(ImplsOf(s0, h), priority)
                           \o InGroup(Contributed(obj, h), priority)

\* two plugins registered one after the other share a priority group
C6_Witness ==
    /\ last.op = "register"
    /\ last.res \in Names
    /\ \E h \in DOMAIN hook : \E i, j \in 1..Len(hook[h].impls) :
          /\ i < j
          /\ hook[h].impls[i].priority = hook[h].impls[j].priority
          /\ hook[h].impls[i].plugin # hook[h].impls[j].plugin
          /\ ~hook[h].impls[i].hookwrapper
          /\ ~hook[h].impls[j].hookwrapper
    /\ \E h \in DOMAIN hook : \E i, j \in 1..Len(hook[h].impls) :
          hook[h].impls[i].priority # hook[h].impls[j].priority

\* C7: a dispatch that raises nothing, on a firstresult caller, returns the
\* single value of the first non-wrapper implementation in dispatch order that
\* returns non-null and invokes none after it, or returns null after invoking
\* all of them when all return null; on any other caller it invokes every
\* non-wrapper implementation and returns their non-null results in dispatch
\* order.
NonWrappers(impls) == LET T(impl) == ~impl.hookwrapper IN SelectSeq(impls, T)
Calls(inv) == LET T(e) == e.ev = "call" IN SelectSeq(inv, T)
NonNull(impls) == LET T(impl) == impl.ret.kind = "val" IN SelectSeq(impls, T)

\* the calls are exactly the first n implementations of the order, in order
InvokedPrefix(calls, order, n) ==
    /\ Len(calls) = n
    /\ \A i \in 1..n : /\ calls[i].plugin = order[i].plugin
                       /\ calls[i].function = order[i].function

C7_DispatchResult ==
    \A h \in HookNames, kwargs \in KwargsSet :
        LET g == hook_getattr(State)
            r == call(State, h, kwargs)
            caller == g.st.hook[h]
            order == NonWrappers(DispatchOrder(caller))
            calls == Calls(SubSeq(r.inv, Len(g.inv) + 1, Len(r.inv)))
            hits == {i \in 1..Len(order) : order[i].ret.kind = "val"}
            k == CHOOSE i \in hits : \A j \in hits : i <= j
        IN (h \in DOMAIN g.st.hook /\ r.res = "ok") =>
              IF caller.spec.bound /\ caller.spec.firstresult
              THEN /\ r.single
                   /\ IF hits = {}
                      THEN r.val = << >> /\ InvokedPrefix(calls, order, Len(order))
                      ELSE r.val = << order[k].ret.v >> /\ InvokedPrefix(calls, order, k)
              ELSE /\ ~r.single
                   /\ InvokedPrefix(calls, order, Len(order))
                   /\ r.val = [i \in 1..Len(NonNull(order)) |-> NonNull(order)[i].ret.v]

\* a firstresult caller was dispatched whose first implementation returns
\* null and which has implementations after the first non-null one
C7_Witness ==
    /\ last.op = "call"
    /\ last.res = "ok"
    /\ last.hookname \in DOMAIN hook
    /\ LET caller == hook[last.hookname]
           order == NonWrappers(DispatchOrder(caller))
       IN /\ caller.spec.bound /\ caller.spec.firstresult
          /\ Len(order) >= 3
          /\ order[1].ret.kind = "none"
          /\ order[2].ret.kind = "val"

\* C8: register of a plugin, under a free name, that has an implementation
\* for a hook whose caller is bound to a specification raises a validation
\* failure when that implementation declares a parameter the specification
\* does not have; a plugin all of whose implementations fit is accepted.
C8_RegisterValidates ==
    \A obj \in Objects, name \in NameArgs :
        LET pn == PluginName(obj, name)
            r == register(State, obj, name)
            impls == iter_implementations(obj)
            free == /\ pn \notin blocked
                    /\ pn \notin DictKeys(plugins)
                    /\ obj \notin DOMAIN plugin2hookcallers
        IN /\ (/\ free
               /\ \E i \in 1..Len(impls) :
                     /\ impls[i].specname \in DOMAIN hook
                     /\ hook[impls[i].specname].spec.bound
                     /\ ~(impls[i].argnames \subseteq hook[impls[i].specname].spec.argnames))
                 => (/\ r.res = "PluginValidationError"
                     /\ pn \notin DictKeys(r.st.plugins) \ DictKeys(plugins))
           /\ (free /\ Fits(State, obj)) => r.res = pn

\* a plugin was rejected at registration for a parameter its bound
\* specification does not have
C8_Witness ==
    /\ last.op = "register"
    /\ last.res = "PluginValidationError"
    /\ "h1" \in DOMAIN hook
    /\ hook["h1"].spec.bound
    /\ ~("b" \in hook["h1"].spec.argnames)
    /\ \A h \in DOMAIN hook : ~is_historic(hook[h])

\* C9: when add_hookspecs reaches a specification for a hook whose caller has
\* implementations and no specification yet, it raises a validation failure
\* in that call if one of them declares a parameter the specification does
\* not have; if all of them fit, the caller is bound to the specification
\* with the same implementations, which a dispatch then visits.
\* the specifications before the i-th of the namespace are declared cleanly
ReachedSpec(s, namespace, i) ==
    \A j \in 1..(i - 1) :
        LET spec == SpecsOf(namespace)[j]
        IN spec.name \in DOMAIN s.hook =>
              /\ ~s.hook[spec.name].spec.bound
              /\ \A k \in 1..Len(s.hook[spec.name].impls) :
                    ImplFits([spec |-> spec], s.hook[spec.name].impls[k])

C9_LateBindingValidates ==
    \A namespace \in SpecNamespaces :
        \A i \in 1..Len(SpecsOf(namespace)) :
            LET spec == SpecsOf(namespace)[i]
                s1 == hook_getattr(State).st
                r == add_hookspecs(State, namespace)
                impls == s1.hook[spec.name].impls
            IN (/\ spec.name \in DOMAIN s1.hook
                /\ ~s1.hook[spec.name].spec.bound
                /\ impls # << >>
                /\ ReachedSpec(s1, namespace, i))
                  => /\ (\E k \in 1..Len(impls) : ~(impls[k].argnames \subseteq spec.argnames))
                           => r.res = "PluginValidationError"
                     /\ (\A k \in 1..Len(impls) : ImplFits([spec |-> spec], impls[k]))
                           => (/\ r.st.hook[spec.name].spec = spec
                               /\ r.st.hook[spec.name].impls = impls
                               /\ DispatchOrder(r.st.hook[spec.name]) = Reverse(impls))

\* a specification was declared after an implementation with a parameter it
\* does not have, and the declaration raised
C9_Witness ==
    /\ last.op = "add_hookspecs"
    /\ last.res = "PluginValidationError"
    /\ \E h \in DOMAIN hook : \E k \in 1..Len(hook[h].impls) :
          /\ hook[h].spec.bound
          /\ ~(hook[h].impls[k].argnames \subseteq hook[h].spec.argnames)

\* C10: in every reachable state every implementation attached to a hook
\* caller whose specification is bound declares only parameters of that
\* specification.
C10_BoundImplsFitSpec ==
    \A h \in DOMAIN hook :
        hook[h].spec.bound =>
            \A k \in 1..Len(hook[h].impls) :
                hook[h].impls[k].argnames \subseteq hook[h].spec.argnames

(***************************************************************************)
(* Historic calls, checked under HistoricSpec.                             *)
(***************************************************************************)
HistKwargs(arg) == [x \in {"a"} |-> arg]

\* the historic caller of the test, once it exists and is bound
HistoricBound == "h3" \in DOMAIN hook /\ is_historic(hook["h3"])

\* the objects of the successful register calls of the journal, in call order
RECURSIVE RegisteredUpTo(_)
RegisteredUpTo(n) ==
    IF n = 0 THEN << >>
    ELSE IF journal[n].op = "register" /\ journal[n].res = get_canonical_name(journal[n].obj)
    THEN Append(RegisteredUpTo(n - 1), journal[n].obj)
    ELSE RegisteredUpTo(n - 1)

\* the one implementation of a plugin of the historic hook
HistImpl(obj) == iter_implementations(obj)[1]

\* C11: call_historic appends the call arguments to the replay log whether
\* or not an implementation is attached; registering an implementation
\* while the log holds k entries invokes it exactly once per entry, in log
\* order, with that entry's arguments, and invokes no implementation that
\* was already attached; a later live call_historic invokes all attached
\* implementations, the last registered first.
C11_HistoricReplay ==
    HistoricBound =>
      /\ \A arg \in HistArgVals, callback \in Callbacks \cup {NoCallback} :
           LET r == call_historic(State, "h3", HistKwargs(arg), callback)
               order == Reverse(RegisteredUpTo(Len(journal)))
           IN /\ r.res = "ok"
              /\ r.st.hook["h3"].history =
                   Append(hook["h3"].history,
                          [kwargs |-> HistKwargs(arg), callback |-> callback])
              /\ Calls(r.inv) = [i \in 1..Len(order) |->
                                   Event("call", HistImpl(order[i]), HistKwargs(arg))]
      /\ \A obj \in HistObjects :
           LET r == register(State, obj, NoName)
               history == hook["h3"].history
           IN r.res = get_canonical_name(obj) =>
                Calls(r.inv) = [i \in 1..Len(history) |->
                                  Event("call", HistImpl(obj), history[i].kwargs)]

\* the scenario of test_register_historic: a historic call with nothing
\* attached, two registrations that each replayed it, then a live call
\* that invoked both implementations
C11_Witness ==
    \E i, j, k, l \in 1..Len(journal) :
       /\ i < j /\ j < k /\ k < l
       /\ journal[i].op = "call_historic" /\ journal[i].res = "ok"
       /\ Calls(journal[i].inv) = << >>
       /\ journal[j].op = "register" /\ Len(Calls(journal[j].inv)) = 1
       /\ journal[k].op = "register" /\ Len(Calls(journal[k].inv)) = 1
       /\ journal[l].op = "call_historic" /\ Len(Calls(journal[l].inv)) = 2

\* the values the implementations of the historic hook produced, in the
\* order in which they were invoked
Produced(inv) ==
    LET calls == Calls(inv)
    IN [i \in 1..Len(calls) |->
          Returned(HistImpl(calls[i].plugin), calls[i].args).v]

RECURSIVE OutUpTo(_)
OutUpTo(n) ==
    IF n = 0 THEN << >> ELSE OutUpTo(n - 1) \o Produced(journal[n].inv)

\* the host declared the historic hook, called it with 1 while nothing was
\* attached, registered f(arg) = arg * 10, then g(arg) = arg, and called it
\* with 12
TwoPluginsScenario ==
    /\ Len(journal) = 5
    /\ journal[1].op = "add_hookspecs" /\ journal[1].res = "ok"
    /\ journal[2].op = "call_historic" /\ journal[2].arg = 1
    /\ journal[3].op = "register" /\ journal[3].obj = "o4"
    /\ journal[4].op = "register" /\ journal[4].obj = "o5"
    /\ journal[5].op = "call_historic" /\ journal[5].arg = 12

\* C12 as stated: after call_historic(arg=1) on a historic caller without
\* implementation, register f(arg) = arg * 10, register g(arg) = arg and a
\* live call_historic(arg=12), the append log of the produced values is
\* exactly [10, 1, 120, 12].
C12_Original ==
    TwoPluginsScenario => OutUpTo(5) = << 10, 1, 120, 12 >>

\* C12 amended: after the same calls the append log of the produced values
\* is exactly [10, 1, 12, 120]: the live call invokes g, registered last,
\* before f.
C12_HistoricLog ==
    TwoPluginsScenario => OutUpTo(5) = << 10, 1, 12, 120 >>

C12_Witness ==
    /\ TwoPluginsScenario
    /\ journal[3].res = "n4" /\ journal[4].res = "n5" /\ journal[5].res = "ok"
    /\ Len(OutUpTo(5)) = 4

\* the result callback invocations among the plugin code that ran
CallbackEvents(inv) == LET T(e) == e.ev = "callback" IN SelectSeq(inv, T)

\* the callback invocation that hands cb the result of impl for kwargs
ResultTo(cb, impl, kwargs) ==
    CallbackEvent(cb, impl, kwargs, Returned(impl, kwargs).v)

\* the attached plugins, last registered first, whose implementation
\* returns a result for kwargs
WithResult(kwargs) ==
    LET T(obj) == Returned(HistImpl(obj), kwargs).kind = "val"
    IN SelectSeq(Reverse(RegisteredUpTo(Len(journal))), T)

\* the log entries that carry a callback and for which the implementation
\* of obj returns a result
Answered(history, obj) ==
    LET T(entry) == /\ entry.callback # NoCallback
                    /\ Returned(HistImpl(obj), entry.kwargs).kind = "val"
    IN SelectSeq(history, T)

\* C13: the result callback of call_historic is invoked once per non-null
\* result of the live dispatch, in dispatch order, and is stored with the log
\* entry; an implementation registered afterwards causes the callback of each
\* entry to be invoked with the result of replaying that entry through the
\* new implementation alone; an entry recorded without a callback never
\* causes a callback invocation.
C13_ResultCallback ==
    HistoricBound =>
      /\ \A arg \in HistArgVals, callback \in Callbacks \cup {NoCallback} :
           LET r == call_historic(State, "h3", HistKwargs(arg), callback)
               producers == WithResult(HistKwargs(arg))
               history == r.st.hook["h3"].history
           IN /\ history[Len(history)].callback = callback
              /\ CallbackEvents(r.inv) =
                   IF callback = NoCallback THEN << >>
                   ELSE [i \in 1..Len(producers) |->
                           ResultTo(callback, HistImpl(producers[i]), HistKwargs(arg))]
      /\ \A obj \in HistObjects :
           LET r == register(State, obj, NoName)
               entries == Answered(hook["h3"].history, obj)
           IN r.res = get_canonical_name(obj) =>
                CallbackEvents(r.inv) =
                  [i \in 1..Len(entries) |->
                     ResultTo(entries[i].callback, HistImpl(obj), entries[i].kwargs)]

\* a live historic call with a callback reached two implementations, one of
\* which returned nothing, and a later registration replayed it
C13_Witness ==
    \E i, j \in 1..Len(journal) :
       /\ i < j
       /\ journal[i].op = "call_historic" /\ journal[i].callback # NoCallback
       /\ Len(Calls(journal[i].inv)) = 2
       /\ Len(CallbackEvents(journal[i].inv)) = 1
       /\ journal[j].op = "register"
       /\ Len(CallbackEvents(journal[j].inv)) = 1
       /\ CallbackEvents(journal[j].inv)[1].cb = journal[i].callback

(***************************************************************************)
(* Wrappers and historic callers, checked under Spec.                      *)
(***************************************************************************)
HasWrapper(caller) == \E i \in 1..Len(caller.impls) : caller.impls[i].hookwrapper

\* some historic caller of the registry s has a wrapper attached
HistoricWrapper(s) ==
    \E h \in DOMAIN s.hook : is_historic(s.hook[h]) /\ HasWrapper(s.hook[h])

\* the wrappers the plugin object contributes
WrappersOf(obj) ==
    LET T(impl) == impl.hookwrapper IN SelectSeq(iter_implementations(obj), T)

\* register gets past its checks of the blocklist and of the duplicates
Admitted(s, obj, name) ==
    /\ ~is_blocked(s, PluginName(obj, name))
    /\ ~is_registered_name(s, PluginName(obj, name))
    /\ ~is_registered_obj(s, obj)

\* C14: no historic caller gets a wrapper attached without a validation
\* failure being raised: register raises a validation failure for a wrapper
\* that targets a caller bound to a historic specification and does not
\* attach it; declaring a historic specification for a name that already has
\* a wrapper raises a validation failure in that call; a wrapper that targets
\* a caller that is not historic is accepted.
C14_HistoricRejectsWrapper ==
    /\ \A obj \in Objects, name \in NameArgs :
         LET r == register(State, obj, name)
             ws == WrappersOf(obj)
         IN /\ (~HistoricWrapper(State) /\ HistoricWrapper(r.st))
                  => r.res = "PluginValidationError"
            /\ (Admitted(State, obj, name) /\ ws # << >>) =>
                  LET h == ws[1].specname IN
                  IF h \in DOMAIN hook /\ is_historic(hook[h])
                  THEN /\ r.res = "PluginValidationError"
                       /\ r.st.hook[h].impls = hook[h].impls
                  ELSE /\ r.res = PluginName(obj, name)
                       /\ \E i \in 1..Len(r.st.hook[h].impls) :
                             r.st.hook[h].impls[i] = ws[1]
    /\ \A namespace \in SpecNamespaces :
         LET r == add_hookspecs(State, namespace)
             specs == SpecsOf(namespace)
         IN /\ (~HistoricWrapper(State) /\ HistoricWrapper(r.st))
                  => r.res = "PluginValidationError"
            /\ \A i \in 1..Len(specs) :
                  (/\ specs[i].historic
                   /\ specs[i].name \in DOMAIN hook
                   /\ ~has_spec(hook[specs[i].name])
                   /\ HasWrapper(hook[specs[i].name]))
                  => r.res = "PluginValidationError"
    /\ \A ignore_errors \in BOOLEAN :
         ~HistoricWrapper(State) => ~HistoricWrapper(discover(State, ignore_errors).st)

\* register has just raised the validation failure for the wrapper of a
\* plugin: the caller it targets is historic, nothing else could have failed,
\* and the wrapper is not attached
C14_Witness ==
    /\ last.op = "register" /\ last.res = "PluginValidationError"
    /\ "h2" \in DOMAIN hook /\ is_historic(hook["h2"])
    /\ ("h1" \notin DOMAIN hook \/ ~has_spec(hook["h1"]))
    /\ ~HistoricWrapper(State)

(***************************************************************************)
(* The pending-hook audit and the empty specification namespace, checked   *)
(* under Spec.                                                             *)
(***************************************************************************)
\* some caller of the registry s has no specification and an implementation
\* that is not optional
Pending(s) ==
    \E h \in DOMAIN s.hook :
       /\ ~has_spec(s.hook[h])
       /\ \E i \in 1..Len(s.hook[h].impls) : ~s.hook[h].impls[i].optionalhook

\* the implementation lists of the registry s, by hook name
ImplLists(s) == [h \in DOMAIN s.hook |-> s.hook[h].impls]

\* C19: check_pending raises a validation failure if and only if some caller
\* without a bound specification has an attached implementation that is not
\* optional, and returns normally otherwise; in both cases the name table,
\* the blocklist and every implementation list are as before the call.
C19_CheckPending ==
    LET r == check_pending(State)
    IN /\ (r.res = "PluginValidationError") <=> Pending(State)
       /\ r.res \in {"PluginValidationError", "None"}
       /\ r.st.plugins = plugins
       /\ r.st.blocked = blocked
       /\ ImplLists(r.st) = ImplLists(State)

\* C20: add_hookspecs on a namespace that contributes no specification
\* raises the no-hooks-found error, creates no hook caller, binds no
\* specification and changes no implementation list.
C20_NoHooksFound ==
    LET r == add_hookspecs(State, "nsE")
    IN /\ r.res = "ValueError"
       /\ r.st.hook = hook

\* the empty namespace has just been declared on a registry that has hook
\* callers with implementations
C20_Witness ==
    /\ last.op = "add_hookspecs" /\ last.res = "ValueError"
    /\ \E h \in DOMAIN hook : hook[h].impls # << >>

(***************************************************************************)
(* Dispatch through wrappers, checked under DispatchSpec.                  *)
(***************************************************************************)
WrappersIn(impls) == LET T(impl) == impl.hookwrapper IN SelectSeq(impls, T)

\* the wrappers and the other implementations of h4, in dispatch order
DispWrappers == WrappersIn(DispatchOrder(hook["h4"]))
DispNonWrappers == NonWrappers(DispatchOrder(hook["h4"]))

\* the events of the kind ev among the plugin code that ran
EventsOf(inv, ev) == LET T(e) == e.ev = ev IN SelectSeq(inv, T)

\* C15: in every dispatch the before phase of every wrapper runs before any
\* implementation that is no wrapper, the wrappers are entered in ordering
\* order, and every wrapper entered has its after phase run exactly once, in
\* the reverse of the entry order, after the inner loop, however the inner
\* loop ended: normally, stopped by firstresult, or by an implementation
\* raising.
C15_WrapperNesting ==
    "h4" \in DOMAIN hook =>
      \A kwargs \in KwargsSet :
         LET inv == call(State, "h4", kwargs).inv
             ws == DispWrappers
             n == Len(ws)
         IN /\ Len(inv) >= 2 * n
            /\ \A i \in 1..n :
                  /\ inv[i] = Event("before", ws[i], kwargs)
                  /\ inv[Len(inv) - n + i] = Event("after", ws[n + 1 - i], kwargs)
            /\ \A j \in (n + 1)..(Len(inv) - n) : inv[j].ev = "call"

\* the dispatch made last entered two wrappers and its inner loop ended by
\* the raising implementation
C15_Witness ==
    /\ Len(journal) = 1
    /\ journal[1].op = "call"
    /\ Len(EventsOf(journal[1].inv, "before")) = 2
    /\ Len(EventsOf(journal[1].inv, "after")) = 2
    /\ \E i \in 1..Len(journal[1].inv) :
          journal[1].inv[i].ev = "call" /\ journal[1].inv[i].function = "x"

\* the inner loop goes on after impl: its parameters were supplied, it did
\* not raise, and it did not end a firstresult dispatch with a result
Passes(impl, kwargs, firstresult) ==
    /\ impl.argnames \subseteq DOMAIN kwargs
    /\ Returned(impl, kwargs).kind # "raise"
    /\ ~(firstresult /\ Returned(impl, kwargs).kind = "val")

\* the dispatch of h4 with kwargs gets as far as its k-th implementation
ReachesAt(k, kwargs) ==
    \A j \in 1..(k - 1) :
       Passes(DispNonWrappers[j], kwargs, is_firstresult(hook["h4"]))

\* the wrappers of h4 that replace the outcome
Replacing == LET T(impl) == impl.ret.kind = "force" IN SelectSeq(DispWrappers, T)

MismatchAt(k, kwargs) ==
    /\ ReachesAt(k, kwargs)
    /\ ~(DispNonWrappers[k].argnames \subseteq DOMAIN kwargs)

\* every implementation invoked got exactly the supplied arguments it
\* declares
ExactArguments(calls, kwargs) ==
    \A j \in 1..Len(calls) :
       /\ calls[j].plugin = DispNonWrappers[j].plugin
       /\ calls[j].function = DispNonWrappers[j].function
       /\ DOMAIN calls[j].args = DispNonWrappers[j].argnames
       /\ \A x \in DOMAIN calls[j].args : calls[j].args[x] = kwargs[x]

\* a mismatch leaves the implementation it was found at, and all after it,
\* without a call, and the ones before it called
StopsAtMismatch(calls, kwargs) ==
    \A k \in 1..Len(DispNonWrappers) : MismatchAt(k, kwargs) => Len(calls) = k - 1

\* C17 as stated: each implementation receives exactly the supplied
\* arguments it declares; the dispatch raises the argument-mismatch failure
\* exactly when it reaches, in dispatch order, an implementation that
\* declares a parameter absent from the supplied arguments; that
\* implementation is not invoked and the earlier ones have been invoked.
C17_Original ==
    "h4" \in DOMAIN hook =>
      \A kwargs \in KwargsSet :
         LET r == call(State, "h4", kwargs)
         IN /\ ExactArguments(Calls(r.inv), kwargs)
            /\ StopsAtMismatch(Calls(r.inv), kwargs)
            /\ (r.res = "HookCallError") <=>
                  \E k \in 1..Len(DispNonWrappers) : MismatchAt(k, kwargs)

\* C17 amended: as above, but the dispatch raises the argument-mismatch
\* failure exactly when it reaches such an implementation and no wrapper
\* replaces the outcome with a success value.
C17_ArgumentCheck ==
    "h4" \in DOMAIN hook =>
      \A kwargs \in KwargsSet :
         LET r == call(State, "h4", kwargs)
         IN /\ ExactArguments(Calls(r.inv), kwargs)
            /\ StopsAtMismatch(Calls(r.inv), kwargs)
            /\ (r.res = "HookCallError") <=>
                  /\ \E k \in 1..Len(DispNonWrappers) : MismatchAt(k, kwargs)
                  /\ Replacing = << >>

\* the dispatch made last invoked an implementation and then raised the
\* argument-mismatch failure at a later one
C17_Witness ==
    /\ Len(journal) = 1
    /\ journal[1].op = "call" /\ journal[1].res = "HookCallError"
    /\ Len(Calls(journal[1].inv)) >= 1
    /\ Len(Calls(journal[1].inv)) < Len(DispNonWrappers)

\* the number of extras a dispatch invokes once it has passed every attached
\* implementation: all up to and including the first one that ends the loop,
\* none from the first one that declares an absent parameter
RECURSIVE ExtrasInvoked(_, _, _, _)
ExtrasInvoked(extras, i, kwargs, firstresult) ==
    IF i > Len(extras) THEN Len(extras)
    ELSE IF ~(extras[i].argnames \subseteq DOMAIN kwargs) THEN i - 1
    ELSE IF ~Passes(extras[i], kwargs, firstresult) THEN i
    ELSE ExtrasInvoked(extras, i + 1, kwargs, firstresult)

\* the results of the first m extras
ExtraResults(extras, m, kwargs) ==
    LET T(impl) == Returned(impl, kwargs).kind = "val"
        invoked == SelectSeq(SubSeq(extras, 1, m), T)
    IN [i \in 1..Len(invoked) |-> Returned(invoked[i], kwargs).v]

\* call_extra's outcome r against the outcome o of the ordinary dispatch of
\* the same registry with the same arguments
ExtrasAfterAttached(r, o, extras, kwargs) ==
    LET calls == Calls(r.inv)
        m == ExtrasInvoked(extras, 1, kwargs, is_firstresult(hook["h4"]))
    IN /\ \A i, j \in 1..Len(calls) :
            (i < j /\ calls[i].plugin = NoObj) => calls[j].plugin = NoObj
       /\ IF ReachesAt(Len(DispNonWrappers) + 1, kwargs)
          THEN /\ calls = Calls(o.inv) \o
                            [i \in 1..m |-> Event("call", extras[i], kwargs)]
               /\ (r.res = "ok" /\ Replacing = << >>)
                     => r.val = o.val \o ExtraResults(extras, m, kwargs)
          ELSE /\ calls = Calls(o.inv)
               /\ r.res = o.res
               /\ r.val = o.val

Gone(s, obj, plugin_name) ==
    /\ ~is_registered_name(s, plugin_name)
    /\ ~is_registered_obj(s, obj)
    /\ \A h \in DOMAIN s.hook : \A i \in 1..Len(get_hookimpls(s.hook[h])) :
          get_hookimpls(s.hook[h])[i].plugin # obj

\* unregister by name or by object
Removed(s, obj, plugin_name, by_name) ==
    unregister(s, IF by_name THEN plugin_name ELSE obj, by_name).st

\* u2 is the registry after the second unregister
RoundTripEnd(u2, obj, plugin_name) ==
    /\ Gone(u2, obj, plugin_name)
    /\ DictValues(u2.plugins) \subseteq {obj} => u2.plugins = << >>

\* r2 is the outcome of the second register
RoundTripAgain(r2, obj, plugin_name, by_name) ==
    /\ r2.res = plugin_name
    /\ RoundTripEnd(Removed(r2.st, obj, plugin_name, by_name), obj, plugin_name)

\* u1 is the registry after the first unregister
RoundTripBack(u1, obj, name, plugin_name, by_name) ==
    /\ Gone(u1, obj, plugin_name)
    /\ RoundTripAgain(register(u1, obj, name), obj, plugin_name, by_name)

\* r1 is the outcome of the first register
RoundTrip(r1, obj, name, by1, by2) ==
    r1.res \in Names =>
        RoundTripBack(Removed(r1.st, obj, r1.res, by1), obj, name, r1.res, by2)

\* C26: when register(obj, name) has succeeded, unregister by name or by
\* object leaves no implementation of obj attached and neither the name nor
\* the object registered; register(obj, name) then succeeds again with the
\* same name, and after the second unregister the name table is empty unless
\* another plugin is registered
C26_RegisterUnregister ==
    \A obj \in Objects, name \in Names \cup {NoName}, by1 \in BOOLEAN, by2 \in BOOLEAN :
        RoundTrip(register(State, obj, name), obj, name, by1, by2)

\* the name table, the blocklist and the implementation lists of s and t
\* are the same
SameRegistry(s, t) ==
    /\ s.plugins = t.plugins
    /\ s.blocked = t.blocked
    /\ DOMAIN s.hook = DOMAIN t.hook
    /\ \A h \in DOMAIN s.hook : get_hookimpls(s.hook[h]) = get_hookimpls(t.hook[h])

\* b is the registry after set_blocked(name), u after set_blocked(name, False)
\* applied to b
Unblocked(b, u, name) ==
    /\ name \notin u.blocked
    /\ SameRegistry(u, [b EXCEPT !.blocked = b.blocked \ {name}])

\* b is the registry after set_blocked(name)
BlockedOnce(b, name) ==
    /\ SameRegistry(set_blocked(b, name, TRUE), b)
    /\ Unblocked(b, set_blocked(b, name, FALSE), name)

\* C27: set_blocked(name) applied twice gives the name table, blocklist and
\* implementation lists of one application; set_blocked(name, False) on a
\* name that is not blocked changes nothing; set_blocked(name, False) after
\* set_blocked(name) takes the name off the blocklist and registers nothing
C27_BlockingIdempotent ==
    \A name \in Names :
        /\ BlockedOnce(set_blocked(State, name, TRUE), name)
        /\ name \notin blocked => set_blocked(State, name, FALSE) = State

\* how often the implementation impl is in the list impls
Occurrences(impls, impl) == Cardinality({i \in 1..Len(impls) : impls[i] = impl})

\* the place of the plugin obj in the name table, which keeps the order of
\* registration
RegisteredAt(obj) == CHOOSE i \in 1..Len(plugins) : plugins[i].obj = obj

\* the list holds the implementations of the registered plugins for the hook
\* h, each once, and nothing else
ListsRegistered(impls, h) ==
    /\ \A i \in 1..Len(impls) : impls[i].plugin \in DictValues(plugins)
    /\ \A obj \in DictValues(plugins) : \A k \in 1..Len(Contributed(obj, h)) :
          Occurrences(impls, Contributed(obj, h)[k]) = 1

\* the list is in the order of registration
InRegistrationOrder(impls) ==
    \A i, j \in 1..Len(impls) :
        (i < j /\ impls[i].plugin \in DictValues(plugins)
               /\ impls[j].plugin \in DictValues(plugins))
            => RegisteredAt(impls[i].plugin) <= RegisteredAt(impls[j].plugin)

\* C28: get_hookimpls of a hook caller lists exactly the implementations of
\* the registered plugins for that hook, none before any registration; the
\* neutral ones are listed in registration order, the reverse of the order in
\* which they are dispatched
C28_GetHookimpls ==
    \A h \in DOMAIN hook :
        /\ ListsRegistered(get_hookimpls(hook[h]), h)
        /\ InRegistrationOrder(InGroup(get_hookimpls(hook[h]), "neutral"))
        /\ InGroup(DispatchOrder(hook[h]), "neutral")
              = Reverse(InGroup(get_hookimpls(hook[h]), "neutral"))

(***************************************************************************)
(* Batch discovery, checked under DiscoverySpec.                           *)
(***************************************************************************)
\* the pass op run on the registry s
RunPass(s, op, prefix, ignore_errors) ==
    CASE op = "load_entrypoints" -> load_entrypoints(s, ignore_errors)
      [] op = "load_modules_by_prefix" -> load_modules_by_prefix(s, prefix, ignore_errors)
      [] OTHER -> discover_with_prefix(s, prefix, ignore_errors)

CandidateSet(e) ==
    {Candidates(e.op, e.prefix)[i] : i \in 1..Len(Candidates(e.op, e.prefix))}

\* the candidates of the recorded pass e that the pass left registered, and
\* those it left blocked
NewlyRegistered(e) ==
    {c \in CandidateSet(e) :
        c.name \in DictKeys(plugins) \ DictKeys(e.before.plugins)}
NewlyBlocked(e) ==
    {c \in CandidateSet(e) : c.name \in blocked \ e.before.blocked}
ErrorsFor(e, name) == {i \in 1..Len(e.errs) : e.errs[i].name = name}

\* what a collecting pass owes its caller
Collected(e) ==
    /\ e.res = "ok"
    /\ \A c \in CandidateSet(e) :
          /\ (c.name \notin DictKeys(e.before.plugins) /\ c.name \notin e.before.blocked)
                => \/ c.name \in DictKeys(plugins)
                   \/ c.name \in blocked
                   \/ c.loads /\ is_registered_obj(State, c.module)
          /\ Cardinality(ErrorsFor(e, c.name)) = IF c \in NewlyBlocked(e) THEN 1 ELSE 0
    /\ Len(e.errs) = Cardinality(NewlyBlocked(e))
    /\ e.count = Cardinality(NewlyRegistered(e))

\* the same pass made again on the registry the pass left
Repeated(e, r) ==
    /\ r.res = "ok"
    /\ r.count = 0
    /\ r.errs = << >>
    /\ r.st.plugins = plugins
    /\ r.st.blocked = blocked

\* C22: a collecting pass (ignore_errors true) attempts every candidate that
\* is neither registered nor blocked, returns exactly one error for every
\* candidate that failed and blocks it, goes on to the later candidates,
\* returns the number of candidates it registered, and a repeated pass
\* returns count 0 and no error
C22_CollectingPass ==
    \A k \in 1..Len(journal) :
        journal[k].ignore_errors =>
            /\ Collected(journal[k])
            /\ Repeated(journal[k], RunPass(State, journal[k].op, journal[k].prefix, TRUE))


\* the place of the candidate called name in the order of the pass e
PlaceOf(e, name) ==
    CHOOSE i \in 1..Len(Candidates(e.op, e.prefix)) : Candidates(e.op, e.prefix)[i].name = name

\* the candidate at place i was not to be skipped when the pass e began
Eligible(e, i) ==
    /\ Candidates(e.op, e.prefix)[i].name \notin DictKeys(e.before.plugins)
    /\ Candidates(e.op, e.prefix)[i].name \notin e.before.blocked

\* the pass e has left the candidate at place i as it found it
Untouched(e, i) ==
    LET c == Candidates(e.op, e.prefix)[i]
    IN /\ (c.name \in DictKeys(plugins)) = (c.name \in DictKeys(e.before.plugins))
       /\ (c.name \in blocked) = (c.name \in e.before.blocked)

\* the candidate at place i has been loaded and did not fail
Loaded(e, i) ==
    LET c == Candidates(e.op, e.prefix)[i]
    IN /\ c.name \notin blocked
       /\ c.name \in DictKeys(plugins) \/ (c.loads /\ is_registered_obj(State, c.module))

\* what a strict pass that raised owes its caller; f is the place of the
\* candidate whose error was raised
Raised(e, f) ==
    /\ e.res \in PluginErrors
    /\ e.res = e.errs[1].error
    /\ e.errs[1].name \in blocked
    /\ \A i \in 1..Len(Candidates(e.op, e.prefix)) :
          /\ (i < f /\ Eligible(e, i)) => Loaded(e, i)
          /\ i > f => Untouched(e, i)

\* C23: a strict pass (ignore_errors false) raises the error of the first
\* candidate that fails and attempts no later one; the candidates it
\* registered before stay registered and the failing one is blocked; a strict
\* pass that returns has met no failing candidate
C23_StrictPass ==
    \A k \in 1..Len(journal) :
        ~journal[k].ignore_errors =>
            IF journal[k].res = "ok"
            THEN /\ NewlyBlocked(journal[k]) = {}
                 /\ journal[k].errs = << >>
                 /\ \A i \in 1..Len(Candidates(journal[k].op, journal[k].prefix)) :
                        Eligible(journal[k], i) => Loaded(journal[k], i)
            ELSE /\ Len(journal[k].errs) = 1
                 /\ Raised(journal[k], PlaceOf(journal[k], journal[k].errs[1].name))


(***************************************************************************)
(* Lazy discovery, checked under LazySpec.                                 *)
(***************************************************************************)
\* the discovery passes that a call with the outcome r began
PassesBegun(r) == r.st.passes

\* C29: while the flag is set, a hook access begins exactly one discovery
\* pass; the pass, lazy or explicit, begins no nested one although it
\* registers plugins; and once a pass has run no hook access begins another
C29_OneTimeDiscovery ==
    /\ needs_discovery =>
          /\ PassesBegun(hook_getattr(State)) = 1
          /\ \A hookname \in HookNames : PassesBegun(call(State, hookname, NoKwargs)) = 1
    /\ PassesBegun(discover(State, TRUE)) = 1
    /\ HasDiscovered =>
          /\ PassesBegun(hook_getattr(State)) = 0
          /\ \A hookname \in HookNames : PassesBegun(call(State, hookname, NoKwargs)) = 0

\* C29 with the exception the code makes: a context that was entered while
\* the flag was set and is left after a pass sets the flag again
C29_OneTimeUnlessRearmed ==
    /\ needs_discovery =>
          /\ PassesBegun(hook_getattr(State)) = 1
          /\ \A hookname \in HookNames : PassesBegun(call(State, hookname, NoKwargs)) = 1
    /\ PassesBegun(discover(State, TRUE)) = 1
    /\ (HasDiscovered /\ ~Rearmed) =>
          /\ PassesBegun(hook_getattr(State)) = 0
          /\ \A hookname \in HookNames : PassesBegun(call(State, hookname, NoKwargs)) = 0

\* a call has begun the one lazy pass, which registered the discovered
\* plugin, and a hook access now begins none
C29_Witness ==
    /\ last.op = "call"
    /\ last.passes = 1
    /\ journal = << >>
    /\ is_registered_obj(State, "o3")
    /\ PassesBegun(hook_getattr(State)) = 0

\* C30: inside a discovery_blocked context no hook access, register or
\* add_hookspecs call begins a discovery pass, and when the context is left,
\* by the end of its body or by an exception, the flag has the value it had
\* when the context was entered
C30_DiscoveryBlocked ==
    /\ Len(journal) > 0 =>
          /\ PassesBegun(hook_getattr(State)) = 0
          /\ \A hookname \in HookNames : PassesBegun(call(State, hookname, NoKwargs)) = 0
          /\ \A obj \in Objects : PassesBegun(register(State, obj, NoName)) = 0
          /\ \A namespace \in SpecNamespaces :
                PassesBegun(add_hookspecs(State, namespace)) = 0
    /\ last.op \in {"exit", "raise"} => needs_discovery = last.entered

\* a context entered while the flag was set has been left by an exception,
\* inside an outer context
C30_Witness ==
    /\ last.op = "raise"
    /\ last.entered
    /\ needs_discovery
    /\ plugins # << >>


(***************************************************************************)
(* Call monitoring, checked under MonitorSpec.                             *)
(***************************************************************************)
\* the monitors whose functions the events call, in the order of the events
MonitorsOf(events) == [i \in 1..Len(events) |-> events[i].function]

\* the code that ran in the recorded dispatch: first the before functions,
\* the monitor installed last first; then what the dispatch runs without a
\* monitor; then the after functions, the monitor installed last last, each
\* with the exception of the dispatch if there is one
Bracketed(inv, chain, plain) ==
    /\ Len(inv) = Len(plain.inv) + 2 * Len(chain)
    /\ MonitorsOf(EventsOf(inv, "monitor_before")) = Reverse(chain)
    /\ MonitorsOf(EventsOf(inv, "monitor_after")) = chain
    /\ EventsOf(SubSeq(inv, 1, Len(chain)), "monitor_before") = SubSeq(inv, 1, Len(chain))
    /\ SubSeq(inv, Len(chain) + 1, Len(chain) + Len(plain.inv)) = plain.inv
    /\ \A i \in 1..Len(inv) : inv[i].ev = "monitor_after" => inv[i].outcome = plain.exc

\* C24: while monitors are installed, every dispatch calls the before
\* function of each once before any implementation and its after function
\* once after the last implementation, also when an implementation raises,
\* and after is then handed the exception; of two monitors the one installed
\* later has its before called first and its after called last
C24_MonitoringBrackets ==
    (last.op = "call" /\ "h4" \in DOMAIN hook) =>
        Bracketed(last.inv, last.chain,
                  hookexec(hook["h4"], DispatchOrder(hook["h4"]), last.kwargs))

\* a dispatch through two monitors in which an implementation raised
C24_Witness ==
    /\ last.op = "call"
    /\ Len(last.chain) = 2
    /\ last.res = "ImplError"
    /\ Calls(last.inv) # << >>
    /\ EventsOf(last.inv, "monitor_after") # << >>

\* the monitors whose undo handle has been called
Undone == {journal[i].monitor : i \in {k \in 1..Len(journal) : journal[k].called}}

\* the dispatch r calls no function of the monitors in the set gone
Silent(r, gone) ==
    \A i \in 1..Len(r.inv) :
        r.inv[i].ev \in {"monitor_before", "monitor_after"} => r.inv[i].function \notin gone

\* C25: once the undo handle of a monitor has been called no dispatch calls
\* its before or after function, and once the undo handles of all monitors
\* have been called, in whatever order, a dispatch is as without monitors
C25_UndoRemoves ==
    "h4" \in DOMAIN hook =>
        \A kwargs \in KwargsSet :
            /\ Silent(traced_hookexec(tracers, hook["h4"], DispatchOrder(hook["h4"]), kwargs),
                      Undone)
            /\ (\A i \in 1..Len(journal) : journal[i].called) =>
                  traced_hookexec(tracers, hook["h4"], DispatchOrder(hook["h4"]), kwargs)
                    = hookexec(hook["h4"], DispatchOrder(hook["h4"]), kwargs)


(***************************************************************************)
(* Registration during a dispatch, checked under ReentrantSpec.            *)
(***************************************************************************)
\* the calls are the invocations of the implementations of the list, one
\* each, in the order of the list
InvokesExactly(calls, list, kwargs) ==
    calls = [i \in 1..Len(list) |-> Event("call", list[i], kwargs)]

\* C21: a dispatch during which an implementation registers or unregisters a
\* plugin with an implementation of the same hook invokes exactly the
\* implementations that were attached when it began, in the order they had
\* then; a dispatch that begins afterwards invokes the list as it is then
C21_DispatchSnapshot ==
    \A k \in 1..Len(journal) :
        journal[k].res = "ok" =>
            /\ InvokesExactly(Calls(journal[k].inv), journal[k].attached, journal[k].kwargs)
            /\ InvokesExactly(Calls(call_reentrant(State, "h5", journal[k].kwargs).inv),
                              DispatchOrder(hook["h5"]), journal[k].kwargs)

\* r1 was invoked and registered r3, whose implementation is attached now
\* and was not invoked by that dispatch
C21_Witness ==
    /\ journal # << >>
    /\ journal[1].res = "ok"
    /\ \E i \in 1..Len(journal[1].attached) : journal[1].attached[i].plugin = "r1"
    /\ \A i \in 1..Len(journal[1].attached) : journal[1].attached[i].plugin # "r3"
    /\ \E i \in 1..Len(hook["h5"].impls) : hook["h5"].impls[i].plugin = "r3"
    /\ Len(journal[1].attached) >= 2

(***************************************************************************)
(* Consistency of the registry in every reachable state, checked under     *)
(* Spec.                                                                   *)
(***************************************************************************)
\* the names under which the object obj is in the name table
NamesOf(obj) == {i \in 1..Len(plugins) : plugins[i].obj = obj}

\* C31: the name table and the plugin-to-hook-callers table describe the same
\* plugins: the object of every registered name is a key of the
\* plugin-to-hook-callers table, every key of that table is the object of
\* exactly one registered name, and no two names have the same object.
C31_TablesAgree ==
    /\ \A name \in DictKeys(plugins) : DictGet(plugins, name) \in DOMAIN plugin2hookcallers
    /\ \A obj \in DOMAIN plugin2hookcallers : Cardinality(NamesOf(obj)) = 1
    /\ \A i, j \in 1..Len(plugins) : plugins[i].obj = plugins[j].obj => i = j

\* C32: every implementation attached to a hook caller is owned by a plugin
\* that is registered; none of a plugin whose registration raised, or of a
\* discovery candidate that was blocked because it failed, stays attached.
C32_AllOrNothing ==
    \A h \in DOMAIN hook : \A i \in 1..Len(hook[h].impls) :
        hook[h].impls[i].plugin \in DictValues(plugins)

\* C33: each implementation of a registered plugin is attached exactly once
\* to the hook caller of its hook, so that a dispatch invokes it at most
\* once.
C33_AttachedOnce ==
    \A obj \in DictValues(plugins) : \A k \in 1..Len(iter_implementations(obj)) :
        LET impl == iter_implementations(obj)[k]
        IN /\ impl.specname \in DOMAIN hook
           /\ Occurrences(hook[impl.specname].impls, impl) = 1
           /\ Occurrences(DispatchOrder(hook[impl.specname]), impl) <= 1

(***************************************************************************)
(* Registration during a historic call, checked under NestedSpec.          *)
(***************************************************************************)
\* how often the event e is among the plugin code of the first n calls of
\* the journal
RECURSIVE InvokedUpTo(_, _)
InvokedUpTo(n, e) ==
    IF n = 0 THEN 0
    ELSE InvokedUpTo(n - 1, e)
         + Cardinality({i \in 1..Len(journal[n].inv) : journal[n].inv[i] = e})

\* the number of entries of the replay log with the arguments kwargs
Logged(history, kwargs) ==
    Cardinality({i \in 1..Len(history) : history[i].kwargs = kwargs})

====
